---------------------------- MODULE Spec2Model ----------------------------
(***************************************************************************)
(* Model of the routing-experiment harness of src/experiment.py:           *)
(* run_query_async (event folding, marker parsing, trace fallback),        *)
(* is_correct_routing, print_results, calculate_run_metrics and the        *)
(* run loop of main_async with run_centralized / run_distributed /         *)
(* run_direct.                                                              *)
(*                                                                         *)
(* Strings are sequences of tokens; the Python string is the               *)
(* concatenation of the tokens.  The token alphabet is chosen so that no   *)
(* token overlaps another, hence substring, prefix, equality and strip on  *)
(* token sequences agree with the same operations on the characters.       *)
(* Floats are IEEE-754 doubles [m, e]: the bits of the significand and the *)
(* exponent of two, every operation rounded to 53 bits as the code's is.   *)
(***************************************************************************)
EXTENDS Integers, Sequences, FiniteSets, TLC

VARIABLES
    events,        \* run_query_async: the event list the completion service builds
    qpc,           \* run_query_async: "await" (in run_debug) or "returned"
    qresult,       \* run_query_async: the returned dict, NoResult before the return
    sc_routed_to,  \* is_correct_routing: argument routed_to
    sc_expected,   \* is_correct_routing: argument expected_domain
    verdict,       \* is_correct_routing: "none" before the call, then TRUE or FALSE
    entry,         \* the coroutine that was started: main_async or run_comparison
    mode,          \* main_async: args.mode
    runs,          \* main_async: args.runs
    queries_to_run, \* main_async: TEST_QUERIES[:args.queries]
    pc,            \* main_async: position
    run_num,       \* main_async: loop variable of "for run_num in range(args.runs)"
    stage,         \* main_async: the topology whose turn it is in the current run
    batch,         \* run_<topology>: the results list being built
    results,       \* main_async: centralized_results, distributed_results, direct_results
    run_metrics,   \* main_async: the three *_run_metrics lists
    error,         \* the exception that ended main_async, "none" otherwise
    debug_calls,   \* run_<topology>: the arguments of its run_debug calls so far
    registry,      \* domains.DOMAINS: the ordered list of domain records
    trees,         \* per topology kind, the trees its builder has returned
    acc_winner,    \* print_multi_run_table: the accuracy winner it prints
    marker_id,     \* the identifier an agent puts in its marker
    marker_author, \* the author of the event that carries the marker
    marker_runs,   \* per way of spacing the marker, the call of
                   \* run_query_async made for it: its position and result
    recommendation, \* main_async: the topology its RECOMMENDATION names
    table_runs,    \* print_multi_run_table: the lists centralized_runs,
                   \* distributed_runs and direct_runs it is called with
    scan_text,     \* query_centralized, query_distributed: response
    scan_pc,       \* query_centralized, query_distributed: position
    temp_response, \* query_distributed: temp_response
    dist_routed,   \* query_distributed: the list routed_to
    cen_result,    \* query_centralized: the dict it returned, if it has
    dist_result,   \* query_distributed: the dict it returned, if it has
    dispatch,      \* per query of the run in progress: its expected domain,
                   \* and the node of the tree at which the completion
                   \* service ends it
    scored         \* print_results: the results its loop has gone through

qvars == <<events, qpc, qresult>>
svars == <<sc_routed_to, sc_expected, verdict>>
mvars == <<entry, mode, runs, queries_to_run, pc, run_num, stage, batch, results,
           run_metrics, error, debug_calls>>
vars == <<events, qpc, qresult, sc_routed_to, sc_expected, verdict, entry, mode,
          runs, queries_to_run, pc, run_num, stage, batch, results, run_metrics, error,
          debug_calls, registry, trees, acc_winner, marker_id, marker_author,
          marker_runs, recommendation, table_runs, scan_text, scan_pc, temp_response,
          dist_routed, cen_result, dist_result, dispatch, scored>>
tvars == <<registry, trees>>
avars == <<acc_winner, recommendation, table_runs>>
wvars == <<marker_id, marker_author, marker_runs>>
xvars == <<scan_text, scan_pc, temp_response, dist_routed, cen_result,
           dist_result>>
rvars == <<dispatch, scored>>

----------------------------------------------------------------------------
(* Tokens of the texts *)

RT == "[ROUTED_TO:"
HB == "[HANDLED_BY:"
CB == "]"
SP == " "
NL == "\n"

UNKNOWN == <<"unknown">>
NoResult == [none |-> TRUE]
\* a local list of main_async: not yet assigned, or assigned the list
Unbound == [bound |-> FALSE, list |-> <<>>]
Bound(rs) == [bound |-> TRUE, list |-> rs]

Topologies == {"centralized", "distributed", "direct"}

\* the builders of the stand-alone modules centralized_routing,
\* distributed_routing and improved_centralized
ModuleBuilders ==
    {"centralized_routing", "distributed_routing", "improved_centralized"}

Builders == Topologies \cup ModuleBuilders

IsSpace(t) == t \in {SP, NL}

\* str.lower() on one token
LowerToken(t) ==
    CASE t = "Coordinator" -> "coordinator"
      [] t = "Category" -> "category"
      [] OTHER -> t

Lower(s) == [i \in DOMAIN s |-> LowerToken(s[i])]

\* needle in hay
Contains(hay, needle) ==
    \E i \in 0..(Len(hay) - Len(needle)) :
        \A k \in 1..Len(needle) : hay[i + k] = needle[k]

\* hay.startswith(prefix)
StartsWith(hay, prefix) ==
    /\ Len(prefix) <= Len(hay)
    /\ \A k \in 1..Len(prefix) : hay[k] = prefix[k]

RECURSIVE LStrip(_)
LStrip(s) == IF s # <<>> /\ IsSpace(Head(s)) THEN LStrip(Tail(s)) ELSE s

RECURSIVE RStrip(_)
RStrip(s) ==
    IF s # <<>> /\ IsSpace(s[Len(s)]) THEN RStrip(SubSeq(s, 1, Len(s) - 1)) ELSE s

\* str.strip()
Strip(s) == RStrip(LStrip(s))

RECURSIVE Concat(_)
Concat(ss) == IF ss = <<>> THEN <<>> ELSE Head(ss) \o Concat(Tail(ss))

----------------------------------------------------------------------------
(* re.findall(pattern, response_text) *)

\* index of the first "]" after position i, 0 when there is none
FirstClose(s, i) ==
    IF \E j \in (i + 1)..Len(s) : s[j] = CB
    THEN CHOOSE j \in (i + 1)..Len(s) :
             /\ s[j] = CB
             /\ \A k \in (i + 1)..(j - 1) : s[k] # CB
    ELSE 0

\* the capture group of a marker opened at i and closed at j > i + 1:
\* \s* is greedy but gives back one character when ([^\]]+) would be empty
CaptureGroup(s, i, j) ==
    LET between == SubSeq(s, i + 1, j - 1)
        stripped == LStrip(between)
    IN  IF stripped = <<>> THEN <<between[Len(between)]>> ELSE stripped

\* the tuple of the two groups of one match: the group of the alternative
\* that did not match is the empty string
MatchAt(s, i, j) ==
    IF s[i] = RT
    THEN <<CaptureGroup(s, i, j), <<>>>>
    ELSE <<<<>>, CaptureGroup(s, i, j)>>

RECURSIVE FindAllFrom(_, _)
FindAllFrom(s, i) ==
    IF i > Len(s) THEN <<>>
    ELSE IF s[i] \in {RT, HB} /\ FirstClose(s, i) > i + 1
         THEN <<MatchAt(s, i, FirstClose(s, i))>> \o FindAllFrom(s, FirstClose(s, i) + 1)
         ELSE FindAllFrom(s, i + 1)

FindAll(s) == FindAllFrom(s, 1)

----------------------------------------------------------------------------
(* run_query_async *)

\* the text one event contributes to response_text
EventText(ev) ==
    Concat([k \in DOMAIN ev.parts |->
               IF ev.parts[k] # <<>> THEN ev.parts[k] \o <<NL>> ELSE <<>>])

ResponseText(evs) == Concat([k \in DOMAIN evs |-> EventText(evs[k])])

IsAgentAuthor(a) == a \notin {<<"user">>, <<"test_user">>}

RECURSIVE RoutingPath(_)
RoutingPath(evs) ==
    IF evs = <<>> THEN <<>>
    ELSE (IF IsAgentAuthor(Head(evs).author) THEN <<Head(evs).author>> ELSE <<>>)
         \o RoutingPath(Tail(evs))

\* the loop over the matches, from the routed_to reached so far
RECURSIVE MarkerLoop(_, _)
MarkerLoop(matches, routed_to) ==
    IF matches = <<>> THEN routed_to
    ELSE LET match == Head(matches)
             routed == IF match[1] # <<>> THEN match[1] ELSE match[2]
         IN  MarkerLoop(Tail(matches),
                        IF routed # <<>> THEN Strip(routed) ELSE routed_to)

MarkerRoutedTo(response_text) == MarkerLoop(FindAll(response_text), UNKNOWN)

\* mutant: the filter compares without lower()
IsDomainAgentCaseSensitive(a) ==
    /\ ~Contains(a, <<"coordinator">>)
    /\ ~Contains(a, <<"category">>)

IsDomainAgent(a) ==
    /\ ~Contains(Lower(a), <<"coordinator">>)
    /\ ~Contains(Lower(a), <<"category">>)

DomainAgents(routing_path) == SelectSeq(routing_path, IsDomainAgent)

TraceFallback(routed_to, routing_path) ==
    IF routed_to = UNKNOWN /\ routing_path # <<>>
    THEN IF DomainAgents(routing_path) # <<>>
         THEN DomainAgents(routing_path)[Len(DomainAgents(routing_path))]
         ELSE routing_path[Len(routing_path)]
    ELSE routed_to

\* mutant: every entry of the path counts, repeated or not
HopCountWithRepeats(routing_path) == Len(routing_path)

HopCount(routing_path) == Cardinality({routing_path[k] : k \in DOMAIN routing_path})

\* the number of characters of the response that the result keeps
ResponseLimit == 500

\* text[:limit], counted in characters: a token is the string of its
\* characters, and the token the cut falls in keeps its first characters
RECURSIVE Truncate(_, _)
Truncate(text, limit) ==
    IF text = <<>> \/ limit = 0 THEN <<>>
    ELSE IF Len(Head(text)) <= limit
         THEN <<Head(text)>> \o Truncate(Tail(text), limit - Len(Head(text)))
         ELSE <<SubSeq(Head(text), 1, limit)>>

RunQuery(evs) ==
    [response     |-> Truncate(ResponseText(evs), ResponseLimit),
     routed_to    |-> TraceFallback(MarkerRoutedTo(ResponseText(evs)), RoutingPath(evs)),
     routing_path |-> RoutingPath(evs),
     hop_count    |-> HopCount(RoutingPath(evs))]

\* the dict run_query_async returns for one query of a run in `mode`, from
\* the events run_debug returned and the time it took
RunQueryAsync(query, m, evs, latency) ==
    [query        |-> query,
     response     |-> RunQuery(evs).response,
     routed_to    |-> RunQuery(evs).routed_to,
     routing_path |-> RunQuery(evs).routing_path,
     hop_count    |-> RunQuery(evs).hop_count,
     latency      |-> latency,
     mode         |-> m]

\* mutant: a session identifier of its own for every query
SessionIdPerQuery(query, m) == <<"test_session_", m, "_", query>>

\* session_id=f"test_session_{mode}"; the query is not part of it
SessionId(query, m) == <<"test_session_", m>>

\* the arguments run_query_async passes to runner.run_debug
RunDebugCall(query, m) ==
    [query      |-> query,
     user_id    |-> "test_user",
     session_id |-> SessionId(query, m)]

----------------------------------------------------------------------------
(* is_correct_routing *)

\* mutant: only the expected domain's own name is correct
IsCorrectRoutingExact(routed, expected) == routed = expected

IsCorrectRouting(routed, expected) ==
    \/ Contains(routed, expected \o <<"_">>)
    \/ StartsWith(routed, expected)

----------------------------------------------------------------------------
(* Numbers. A Python float is a binary floating-point number of 53         *)
(* significant bits, and every operation on floats rounds its exact result *)
(* to the nearest such number, to the even one of two nearest. The model    *)
(* writes the float of value m * 2^e as [m |-> bits, e |-> e], bits being   *)
(* m in binary, most significant bit first, with neither a leading nor a    *)
(* trailing zero bit, so that a number has one representation; zero is      *)
(* [m |-> <<>>, e |-> 0]. Only numbers that are not negative occur. A zero  *)
(* divisor raises ZeroDivisionError.                                        *)
(* Only({F(v) : v \in {x}}) is F(x), written so that x is evaluated once.   *)

ZeroDivisionError == [raised |-> "ZeroDivisionError"]

\* sys.float_info.mant_dig
Precision == 53

Zero == [m |-> <<>>, e |-> 0]

\* the element of a set of one element
Only(S) == CHOOSE v \in S : TRUE

Zeros(n) == [i \in 1..n |-> 0]

\* a natural number in binary
RECURSIVE Bits(_)
Bits(n) == IF n = 0 THEN <<>> ELSE Bits(n \div 2) \o <<n % 2>>

\* the place of the first and of the last one bit of a binary number
FirstOne(b) ==
    CHOOSE i \in DOMAIN b : b[i] = 1 /\ \A j \in 1..(i - 1) : b[j] = 0

LastOne(b) ==
    CHOOSE i \in DOMAIN b : b[i] = 1 /\ \A j \in (i + 1)..Len(b) : b[j] = 0

StripValue(b) ==
    IF \E i \in DOMAIN b : b[i] = 1 THEN SubSeq(b, FirstOne(b), Len(b)) ELSE <<>>

\* a binary number without its leading zero bits
StripLeadingZeros(bits) == Only({StripValue(b) : b \in {bits}})

\* a binary number written with n bits
Padded(b, n) == Zeros(n - Len(b)) \o b

\* the carry into place i of x + y: a lower place makes one and every
\* place between them passes it on
Carry(x, y, i) ==
    IF \E j \in (i + 1)..Len(x) :
           /\ x[j] + y[j] = 2
           /\ \A k \in (i + 1)..(j - 1) : x[k] + y[k] = 1
    THEN 1 ELSE 0

\* x + y for binary numbers of the same number of bits, the first bits zero
AddPadded(x, y) ==
    SubSeq([i \in DOMAIN x |-> (x[i] + y[i] + Carry(x, y, i)) % 2], 1, Len(x))

AddValues(a, b) ==
    Only({AddPadded(w[1], w[2]) :
             w \in {<<Padded(a, (IF Len(a) < Len(b) THEN Len(b) ELSE Len(a)) + 1),
                      Padded(b, (IF Len(a) < Len(b) THEN Len(b) ELSE Len(a)) + 1)>>}})

\* a + b on binary numbers
BigAdd(a, b) == Only({AddValues(v[1], v[2]) : v \in {<<a, b>>}})

\* the borrow from place i of x - y: a lower place borrows and every place
\* between them passes it on
Borrow(x, y, i) ==
    IF \E j \in (i + 1)..Len(x) :
           /\ x[j] < y[j]
           /\ \A k \in (i + 1)..(j - 1) : x[k] = y[k]
    THEN 1 ELSE 0

\* x - y for binary numbers of the same number of bits, x >= y
SubPadded(x, y) ==
    SubSeq([i \in DOMAIN x |-> (x[i] - y[i] - Borrow(x, y, i) + 2) % 2], 1, Len(x))

\* a - b on binary numbers, for a >= b
BigSub(a, b) ==
    Only({SubPadded(v[1], Padded(v[2], Len(v[1]))) : v \in {<<a, b>>}})

\* a * k for a binary number a and a natural number k
RECURSIVE BigTimes(_, _)
BigTimes(a, k) ==
    IF k = 0 THEN <<>>
    ELSE BigAdd(IF k % 2 = 1 THEN a ELSE <<>>, BigTimes(a, k \div 2) \o <<0>>)

\* a < b on binary numbers without leading zero bits
BigLess(a, b) ==
    IF Len(a) # Len(b) THEN Len(a) < Len(b)
    ELSE \E i \in DOMAIN a :
             /\ a[i] < b[i]
             /\ \A j \in 1..(i - 1) : a[j] = b[j]

ExactValue(b, e) ==
    IF b = <<>> THEN Zero
    ELSE [m |-> SubSeq(b, 1, LastOne(b)), e |-> e + Len(b) - LastOne(b)]

\* the number bits * 2^e, which needs no rounding
Exact(bits, e) == Only({ExactValue(b, e) : b \in {StripLeadingZeros(bits)}})

\* whether b, of more bits than a mantissa, rounds away from zero: the bit
\* after the mantissa is one and a later bit is, or the mantissa is odd
RoundsUp(b, sticky) ==
    /\ b[Precision + 1] = 1
    /\ \/ sticky
       \/ \E i \in (Precision + 2)..Len(b) : b[i] = 1
       \/ b[Precision] = 1

RoundValue(b, e, sticky) ==
    IF Len(b) <= Precision THEN ExactValue(b, e)
    ELSE Exact(IF RoundsUp(b, sticky)
               THEN BigAdd(SubSeq(b, 1, Precision), <<1>>)
               ELSE SubSeq(b, 1, Precision),
               e + Len(b) - Precision)

\* the float nearest to bits * 2^e, or to a number between it and the next
\* multiple of 2^e when sticky holds: a tie goes to the even mantissa
Round(bits, e, sticky) ==
    Only({RoundValue(b, e, sticky) : b \in {StripLeadingZeros(bits)}})

FromInt(n) == Exact(Bits(n), 0)

AlignedValues(a, b) ==
    [a |-> StripLeadingZeros(a.m \o Zeros(a.e - (IF a.e < b.e THEN a.e ELSE b.e))),
     b |-> StripLeadingZeros(b.m \o Zeros(b.e - (IF a.e < b.e THEN a.e ELSE b.e))),
     e |-> IF a.e < b.e THEN a.e ELSE b.e]

\* the bits of a and of b as multiples of the same power of two
Aligned(a, b) == Only({AlignedValues(v[1], v[2]) : v \in {<<a, b>>}})

\* a < b on floats
Less(a, b) == Only({BigLess(v.a, v.b) : v \in {Aligned(a, b)}})

\* the exact sum of two floats, which may have more than 53 bits
ExactPlus(a, b) == Only({Exact(BigAdd(v.a, v.b), v.e) : v \in {Aligned(a, b)}})

\* the exact difference a - b of two floats, for a >= b
ExactMinus(a, b) == Only({Exact(BigSub(v.a, v.b), v.e) : v \in {Aligned(a, b)}})

\* a + b on floats
Plus(a, b) == Only({Round(v.m, v.e, FALSE) : v \in {ExactPlus(a, b)}})

\* a - b on floats, for a >= b
Minus(a, b) == Only({Round(v.m, v.e, FALSE) : v \in {ExactMinus(a, b)}})

\* abs(a - b) on floats
AbsDiff(a, b) ==
    Only({IF Less(v[1], v[2]) THEN Minus(v[2], v[1]) ELSE Minus(v[1], v[2]) :
             v \in {<<a, b>>}})

\* one step of a long division: the quotient bit and the remainder
DivBit(r, d) ==
    IF r >= d THEN [q |-> <<1>>, rem |-> r - d] ELSE [q |-> <<0>>, rem |-> r]

\* the long division of a binary number by the natural number d > 0, from
\* the remainder rem of the bits before it: the quotient, one bit for a
\* bit, and the remainder; a half of the bits is divided after the other
RECURSIVE LongDiv(_, _, _)
RECURSIVE LongDivRest(_, _, _)
LongDivRest(left, bits, d) ==
    Only({[q |-> left.q \o right.q, rem |-> right.rem] :
             right \in {LongDiv(bits, d, left.rem)}})

LongDiv(bits, d, rem) ==
    IF bits = <<>> THEN [q |-> <<>>, rem |-> rem]
    ELSE IF Len(bits) = 1 THEN DivBit(2 * rem + bits[1], d)
    ELSE Only({LongDivRest(left, SubSeq(bits, Len(bits) \div 2 + 1, Len(bits)), d) :
                  left \in {LongDiv(SubSeq(bits, 1, Len(bits) \div 2), d, rem)}})

\* the zero bits a number is divided with
Extra(d) == Precision + 2 + Len(Bits(d))

QuotientValue(x, d) ==
    IF x.m = <<>> THEN Zero
    ELSE Only({Round(r.q, x.e - Extra(d), r.rem # 0) :
                  r \in {LongDiv(x.m \o Zeros(Extra(d)), d, 0)}})

\* the float nearest to x / d, for a number x * 2^e and a natural d > 0: x
\* is divided with as many zero bits after it as give the quotient two
\* bits more than a mantissa
Quotient(x, d) == Only({QuotientValue(v, d) : v \in {x}})

\* a / b on integers
Div(a, b) == IF b = 0 THEN ZeroDivisionError ELSE Quotient(FromInt(a), b)

\* x * k for a quotient x and an integer k
Times(x, k) ==
    Only({IF v = ZeroDivisionError THEN v
          ELSE Round(BigTimes(v.m, k), v.e, FALSE) : v \in {x}})

\* sum(r[field] for r in rs): the hop counts are integers and the latencies
\* of the model are whole seconds, so that no addition rounds
RECURSIVE SumOf(_, _)
SumOf(rs, field) ==
    IF rs = <<>> THEN 0 ELSE Head(rs)[field] + SumOf(Tail(rs), field)

\* mutant: the count misses the last result
RECURSIVE CountCorrectButLast(_)
CountCorrectButLast(rs) ==
    IF Len(rs) <= 1 THEN 0
    ELSE (IF IsCorrectRouting(Head(rs).routed_to, Head(rs).expected) THEN 1 ELSE 0)
         + CountCorrectButLast(Tail(rs))

RECURSIVE CountCorrect(_)
CountCorrect(rs) ==
    IF rs = <<>> THEN 0
    ELSE (IF IsCorrectRouting(Head(rs).routed_to, Head(rs).expected) THEN 1 ELSE 0)
         + CountCorrect(Tail(rs))

----------------------------------------------------------------------------
(* print_results: "ok", or the exception it raises *)

PrintResults(rs, verbose) ==
    IF ~verbose THEN "ok"
    ELSE IF Times(Div(CountCorrect(rs), Len(rs)), 100) = ZeroDivisionError
         THEN "ZeroDivisionError"
    ELSE IF Div(SumOf(rs, "latency"), Len(rs)) = ZeroDivisionError
         THEN "ZeroDivisionError"
    ELSE IF Div(SumOf(rs, "hop_count"), Len(rs)) = ZeroDivisionError
         THEN "ZeroDivisionError"
    ELSE "ok"

(* calculate_run_metrics *)

\* mutant: the divisions are not guarded by "if total > 0"
CalculateRunMetricsUnguarded(rs) ==
    [accuracy    |-> Times(Div(CountCorrect(rs), Len(rs)), 100),
     avg_latency |-> Div(SumOf(rs, "latency"), Len(rs)),
     avg_hops    |-> Div(SumOf(rs, "hop_count"), Len(rs)),
     correct     |-> CountCorrect(rs),
     total       |-> Len(rs)]

CalculateRunMetrics(rs) ==
    LET correct == CountCorrect(rs)
        total == Len(rs)
    IN  [accuracy    |-> IF total > 0 THEN Times(Div(correct, total), 100) ELSE Zero,
         avg_latency |-> IF total > 0 THEN Div(SumOf(rs, "latency"), total) ELSE Zero,
         avg_hops    |-> IF total > 0 THEN Div(SumOf(rs, "hop_count"), total) ELSE Zero,
         correct     |-> correct,
         total       |-> total]

----------------------------------------------------------------------------
(* The accuracy winners: of print_multi_run_table, from the mean accuracy  *)
(* of each topology over its runs, and of the single-run comparison of     *)
(* main_async, from the accuracy of each topology in the run.              *)

StatisticsError == [raised |-> "StatisticsError"]

\* the exact sum of the values, as statistics._sum computes it
RECURSIVE ExactSum(_)
ExactSum(values) ==
    IF values = <<>> THEN Zero ELSE ExactPlus(Head(values), ExactSum(Tail(values)))

\* statistics.mean(values): the exact sum over the count, rounded once
Mean(values) ==
    Only({IF v = <<>> THEN StatisticsError ELSE Quotient(ExactSum(v), Len(v)) :
             v \in {values}})

\* [r['accuracy'] for r in runs]
Accuracies(run_list) == [i \in 1..Len(run_list) |-> run_list[i].accuracy]

\* max(a, b, c): the first of the largest
Max3(a, b, c) ==
    Only({IF Less(IF Less(v[1], v[2]) THEN v[2] ELSE v[1], v[3]) THEN v[3]
          ELSE IF Less(v[1], v[2]) THEN v[2] ELSE v[1] : v \in {<<a, b, c>>}})

\* the accuracy winner print_multi_run_table prints, or the exception that
\* ends it
AccWinner(centralized_runs, distributed_runs, direct_runs) ==
    IF Len(distributed_runs) < Len(centralized_runs) THEN "IndexError"
    ELSE Only({
        LET avg_cen_acc == avg[1]
            avg_dist_acc == avg[2]
            avg_dir_acc == avg[3]
        IN  IF direct_runs # <<>>
            THEN IF StatisticsError \in {avg_cen_acc, avg_dist_acc}
                 THEN "StatisticsError"
                 ELSE LET best_acc == Max3(avg_cen_acc, avg_dist_acc, avg_dir_acc)
                      IN  IF best_acc = avg_cen_acc THEN "Centralized"
                          ELSE IF best_acc = avg_dir_acc THEN "Direct"
                          ELSE "Distributed"
            ELSE IF StatisticsError \in {avg_cen_acc, avg_dist_acc}
                 THEN "StatisticsError"
                 ELSE IF Less(avg_dist_acc, avg_cen_acc) THEN "Centralized"
                      ELSE IF Less(avg_cen_acc, avg_dist_acc) THEN "Distributed"
                      ELSE "Tie"
        : avg \in {<<Mean(Accuracies(centralized_runs)),
                     Mean(Accuracies(distributed_runs)),
                     Mean(Accuracies(direct_runs))>>}})

\* min(a, b, c)
Min3(a, b, c) ==
    Only({IF Less(v[3], IF Less(v[2], v[1]) THEN v[2] ELSE v[1]) THEN v[3]
          ELSE IF Less(v[2], v[1]) THEN v[2] ELSE v[1] : v \in {<<a, b, c>>}})

\* the accuracy winner of the single-run comparison
SingleRunAccWinner(cen_acc, dist_acc, dir_acc) ==
    Only({
        LET best_acc == Max3(acc[1], acc[2], acc[3])
        IN  IF Less(Minus(Max3(acc[1], acc[2], acc[3]), Min3(acc[1], acc[2], acc[3])),
                    FromInt(5))
            THEN "Tie"
            ELSE IF best_acc = acc[1] THEN "Centralized"
            ELSE IF best_acc = acc[3] THEN "Direct"
            ELSE "Distributed"
        : acc \in {<<cen_acc, dist_acc, dir_acc>>}})

\* run_comparison: the accuracy winner of two topologies
TwoWayAccWinner(cen_acc, dist_acc) ==
    Only({IF Less(AbsDiff(acc[1], acc[2]), FromInt(5)) THEN "Tie"
          ELSE IF Less(acc[2], acc[1]) THEN "Centralized"
          ELSE "Distributed"
          : acc \in {<<cen_acc, dist_acc>>}})

\* run_comparison: the winner printed under RECOMMENDATION
TwoWayRecommendation(cen_acc, dist_acc) ==
    IF ~Less(dist_acc, cen_acc) THEN "Distributed routing (Idea 2)"
    ELSE "Centralized routing (Idea 1)"

\* the winner printed under RECOMMENDATION
Recommendation(cen_acc, dist_acc, dir_acc) ==
    Only({
        LET best_acc_val == Max3(acc[1], acc[2], acc[3])
        IN  IF best_acc_val = acc[3] THEN "Direct routing (Idea 3)"
            ELSE IF best_acc_val = acc[2] THEN "Distributed routing (Idea 2)"
            ELSE "Centralized routing (Idea 1)"
        : acc \in {<<cen_acc, dist_acc, dir_acc>>}})

----------------------------------------------------------------------------
(* The completion service answering one query, and run_query_async         *)
(* returning.  ParseSpec: one event with one text part, any text.          *)

MaxTokens == 6

\* the string of n characters x
RECURSIVE Xs(_)
Xs(n) ==
    IF n = 0 THEN ""
    ELSE IF n % 2 = 0 THEN Xs(n \div 2) \o Xs(n \div 2)
    ELSE "x" \o Xs(n - 1)

\* a long opening of a text part: with "[ROUTED_TO:hr]" after it the part has
\* ResponseLimit characters
Preamble == Xs(ResponseLimit - 14)

ParseTokens == {RT, HB, CB, SP, "hr", "unknown", Preamble}
ParseAuthors == {<<"test_user">>, <<"central_", "coordinator">>, <<"hr", "_", "agent">>}

TokenCount(evs) == Len(Concat([k \in DOMAIN evs |-> Concat(evs[k].parts)]))

\* the variables of is_correct_routing and of main_async, before any call
ScoreIdle ==
    /\ sc_routed_to = <<>>
    /\ sc_expected = <<>>
    /\ verdict = "none"

MainIdle ==
    /\ entry = "main_async"
    /\ mode = "quick"
    /\ runs = 1
    /\ queries_to_run = <<>>
    /\ pc = "idle"
    /\ run_num = 0
    /\ stage = "centralized"
    /\ batch = <<>>
    /\ results = [t \in Topologies |-> Unbound]
    /\ run_metrics = [t \in Topologies |-> <<>>]
    /\ error = "none"
    /\ debug_calls = <<>>

\* no tree has been built
TreeIdle ==
    /\ registry = <<>>
    /\ trees = [k \in Builders |-> <<>>]

\* print_multi_run_table has not been called
AggIdle ==
    /\ acc_winner = "none"
    /\ recommendation = "none"
    /\ table_runs = [centralized_runs |-> <<>>, distributed_runs |-> <<>>,
                     direct_runs |-> <<>>]

\* no query is in progress on a built tree
RouteIdle == dispatch = <<>> /\ scored = 0

\* neither query_centralized nor query_distributed has been called
ScanIdle ==
    /\ scan_text = <<>>
    /\ scan_pc = "idle"
    /\ temp_response = <<>>
    /\ dist_routed = <<>>
    /\ cen_result = <<>>
    /\ dist_result = <<>>

\* the three ways of spacing a marker: "[ROUTED_TO: id]", "[ROUTED_TO:id ]"
\* and "[ROUTED_TO:  id  ]"
Spacings == {"before", "after", "around"}

\* no marker has been parsed
MarkerIdle ==
    /\ marker_id = <<>>
    /\ marker_author = <<>>
    /\ marker_runs = [v \in Spacings |-> <<>>]

QueryIdle ==
    /\ events = <<>>
    /\ qpc = "idle"
    /\ qresult = NoResult

QInit ==
    /\ events = <<>>
    /\ qpc = "await"
    /\ qresult = NoResult
    /\ ScoreIdle
    /\ MainIdle
    /\ TreeIdle
    /\ AggIdle
    /\ MarkerIdle
    /\ ScanIdle
    /\ RouteIdle

\* the service starts an event authored by a
ServiceEvent(a, maxEvents) ==
    /\ qpc = "await"
    /\ Len(events) < maxEvents
    /\ events' = Append(events, [author |-> a, parts |-> <<>>])
    /\ UNCHANGED <<qpc, qresult, svars, mvars, tvars, avars, wvars, xvars, rvars>>

\* the service starts a text part in its last event
ServicePart(maxParts) ==
    /\ qpc = "await"
    /\ events # <<>>
    /\ Len(events[Len(events)].parts) < maxParts
    /\ events' = [events EXCEPT ![Len(events)].parts = Append(@, <<>>)]
    /\ UNCHANGED <<qpc, qresult, svars, mvars, tvars, avars, wvars, xvars, rvars>>

\* the service writes one token into its last text part
ServiceToken(t, maxTokens) ==
    /\ qpc = "await"
    /\ events # <<>>
    /\ events[Len(events)].parts # <<>>
    /\ TokenCount(events) < maxTokens
    /\ t = Preamble => events[Len(events)].parts[Len(events[Len(events)].parts)] = <<>>
    /\ events' = [events EXCEPT ![Len(events)].parts =
                      [@ EXCEPT ![Len(@)] = Append(@, t)]]
    /\ UNCHANGED <<qpc, qresult, svars, mvars, tvars, avars, wvars, xvars, rvars>>

\* run_debug returns the events and run_query_async runs to its return
QueryReturns ==
    /\ qpc = "await"
    /\ qpc' = "returned"
    /\ qresult' = RunQuery(events)
    /\ UNCHANGED <<events, svars, mvars, tvars, avars, wvars, xvars, rvars>>

ParseNext ==
    \/ \E a \in ParseAuthors : ServiceEvent(a, 1)
    \/ ServicePart(1)
    \/ \E t \in ParseTokens : ServiceToken(t, MaxTokens)
    \/ QueryReturns

ParseSpec == QInit /\ [][ParseNext]_vars

(* TraceSpec: several events by several authors, short texts. *)

MaxTraceEvents == 2
MaxTraceTokens == 3

TraceTokens == {RT, "hr", CB, Preamble}
TraceAuthors ==
    {<<"user">>, <<"central_", "coordinator">>, <<"hr", "_", "Category">>,
     <<"finance", "_", "agent">>, <<"hr", "_", "agent">>}

TraceNext ==
    \/ \E a \in TraceAuthors : ServiceEvent(a, MaxTraceEvents)
    \/ ServicePart(1)
    \/ \E t \in TraceTokens : ServiceToken(t, MaxTraceTokens)
    \/ QueryReturns

TraceSpec == QInit /\ [][TraceNext]_vars

----------------------------------------------------------------------------
(* ScoreSpec: is_correct_routing on every short identifier. *)

MaxIdLen == 3

ScoreTokens == {"finance", "hr", "_", "handler"}
ScoreDomains == {<<"finance">>, <<"hr">>}

ScoreInit ==
    /\ sc_routed_to = <<>>
    /\ sc_expected \in ScoreDomains
    /\ verdict = "none"
    /\ QueryIdle
    /\ MainIdle
    /\ TreeIdle
    /\ AggIdle
    /\ MarkerIdle
    /\ ScanIdle
    /\ RouteIdle

\* the caller extends the identifier it will score
ScoreToken(t) ==
    /\ verdict = "none"
    /\ Len(sc_routed_to) < MaxIdLen
    /\ sc_routed_to' = Append(sc_routed_to, t)
    /\ UNCHANGED <<sc_expected, verdict, qvars, mvars, tvars, avars, wvars, xvars, rvars>>

\* is_correct_routing(routed_to, expected_domain)
Score ==
    /\ verdict = "none"
    /\ verdict' = IF IsCorrectRouting(sc_routed_to, sc_expected) THEN "True" ELSE "False"
    /\ UNCHANGED <<sc_routed_to, sc_expected, qvars, mvars, tvars, avars, wvars, xvars, rvars>>

ScoreNext ==
    \/ \E t \in ScoreTokens : ScoreToken(t)
    \/ Score

ScoreSpec == ScoreInit /\ [][ScoreNext]_vars

----------------------------------------------------------------------------
(* The topology builders. A domain record of the model has the name and    *)
(* the sub_agents list of the record in domains.py; its description,       *)
(* keywords and sample queries are free text that the builders only copy   *)
(* into instructions and descriptions, and the lines that render them are  *)
(* left out of the texts below. An identifier is a sequence of tokens,     *)
(* f"{a}_{b}" is a \o <<"_">> \o b.                                         *)

MaxDomains == 2

\* entries of domains.SUB_AGENTS; a key written twice in the dict literal
\* keeps the value written last
SUB_AGENTS ==
    (<<"banking">> :> <<"Handles bank accounts, transfers, and banking services">>)
    @@ (<<"expenses">> :> <<"Handles expense reporting, tracking, and reimbursement">>)
    @@ (<<"flights">> :> <<"Handles flight bookings, changes, cancellations, and flight status">>)
    @@ (<<"hotels">> :> <<"Manages hotel search, booking, modifications, and reservations">>)
    @@ (<<"cars">> :> <<"Handles car rental bookings, modifications, and vehicle selection">>)
    @@ (<<"activities">> :> <<"Manages tours, activities, and experiences booking">>)
    @@ (<<"payroll">> :> <<"Manages salary, payments, and compensation">>)
    @@ (<<"benefits">> :> <<"Handles employee benefits, insurance, and perks">>)
    @@ (<<"recruiting">> :> <<"Manages recruitment, hiring, and job applications">>)
    @@ (<<"training">> :> <<"Provides ethics training">>)
    @@ (<<"logistics">> :> <<"Manages event logistics and operations">>)
    @@ (<<"inventory">> :> <<"Tracks inventory levels and stock management">>)
    @@ (<<"vendors">> :> <<"Manages vendor relationships">>)
    @@ (<<"facilities">> :> <<"Handles facility management and maintenance">>)
    @@ (<<"forecasting">> :> <<"Handles revenue forecasting">>)
    @@ (<<"operations">> :> <<"Manages revenue operations">>)
    @@ (<<"analytics">> :> <<"Provides revenue analytics">>)
    @@ (<<"strategy">> :> <<"Develops revenue strategy">>)

\* three records of domains.DOMAINS, in the order of the list
ShippedDomains ==
    <<[name |-> <<"hr">>,
       sub_agents |-> <<<<"payroll">>, <<"benefits">>, <<"recruiting">>,
                        <<"training">>>>],
      [name |-> <<"operations">>,
       sub_agents |-> <<<<"logistics">>, <<"inventory">>, <<"vendors">>,
                        <<"facilities">>>>],
      [name |-> <<"revenue", "_", "operations">>,
       sub_agents |-> <<<<"forecasting">>, <<"operations">>, <<"analytics">>,
                        <<"strategy">>>>]>>

\* the first record of domains.DOMAINS
TravelDomains ==
    <<[name |-> <<"travel">>,
       sub_agents |-> <<<<"flights">>, <<"hotels">>, <<"cars">>,
                        <<"activities">>>>]>>

DomainNames == {<<"finance">>, <<"hr">>, <<"hr", "_", "ops">>}

\* the sub_agents a domain record may list; "ops" and "domain" have no
\* entry in SUB_AGENTS
SubAgentLists ==
    {<<>>, <<<<"ops">>>>, <<<<"banking">>, <<"expenses">>>>, <<<<"domain">>>>}

DomainRecords == [name : DomainNames, sub_agents : SubAgentLists]

\* the registries of at most MaxDomains records; name is the unique key of
\* a domain record
Registries ==
    UNION {{r \in [1..n -> DomainRecords] :
               \A i, j \in 1..n : i # j => r[i].name # r[j].name}
           : n \in 0..MaxDomains}

\* LlmAgent(name=..., instruction=..., description=..., sub_agents=...)
LlmAgent(name, instruction, description, sub_agents) ==
    [name        |-> name,
     instruction |-> instruction,
     description |-> description,
     sub_agents  |-> sub_agents]

\* the concatenation of the lists of a list
RECURSIVE Flatten(_)
Flatten(xss) ==
    IF xss = <<>> THEN <<>> ELSE Head(xss) \o Flatten(Tail(xss))

\* mutant: a name without a description gets an empty description
SubDescNoPlaceholder(sub_name) ==
    IF sub_name \in DOMAIN SUB_AGENTS THEN SUB_AGENTS[sub_name] ELSE <<>>

\* SUB_AGENTS.get(sub_name, f"Handles {sub_name}")
SubDesc(sub_name) ==
    IF sub_name \in DOMAIN SUB_AGENTS
    THEN SUB_AGENTS[sub_name]
    ELSE <<"Handles ">> \o sub_name

\* the last line of a leaf's instruction
StartWith(name) == <<"Start your response with: ", RT, SP>> \o name \o <<CB>>

\* create_centralized_system: the agent of one domain
CentralizedAgent(domain) ==
    LlmAgent(domain.name \o <<"_", "agent">>,
             <<"Acknowledge you are handling this request as the ">>
                 \o domain.name \o <<" agent.", NL>>
                 \o StartWith(domain.name \o <<"_", "agent">>),
             <<>>,
             <<>>)

CreateCentralizedSystem(domains) ==
    LlmAgent(<<"central", "_", "coordinator">>,
             <<"You are the central routing coordinator.">>,
             <<>>,
             [i \in 1..Len(domains) |-> CentralizedAgent(domains[i])])

\* create_distributed_system: the sub-agent sub_name of a domain
DistributedSubAgent(domain, sub_name) ==
    LlmAgent(domain.name \o <<"_">> \o sub_name,
             <<"You are the ">> \o sub_name \o <<" sub-agent.", NL>>
                 \o <<"Description: ">> \o SubDesc(sub_name) \o <<NL>>
                 \o StartWith(domain.name \o <<"_">> \o sub_name),
             sub_name \o <<": ">> \o SubDesc(sub_name),
             <<>>)

\* mutant: the sub-agents of a domain are left out of its node
DistributedDomainAgentWithoutSubAgents(domain) ==
    LlmAgent(domain.name \o <<"_", "domain">>,
             <<"Handle this request directly.", NL>> \o StartWith(domain.name),
             <<>>,
             <<>>)

\* create_distributed_system: the agent of one domain with its sub-agents
DistributedDomainAgent(domain) ==
    LET sub_agents ==
            [i \in 1..Len(domain.sub_agents) |->
                 DistributedSubAgent(domain, domain.sub_agents[i])]
        routing_instruction ==
            IF sub_agents # <<>>
            THEN <<"Route to the most appropriate sub-agent and delegate immediately.",
                   NL, "After routing, indicate with: ", RT, SP>>
                     \o domain.name \o <<CB>>
            ELSE <<"Handle this request directly.", NL>> \o StartWith(domain.name)
    IN  LlmAgent(domain.name \o <<"_", "domain">>, routing_instruction, <<>>,
                 sub_agents)

\* list(domain_agent_map.values()) after domain_agent_map[name] = agent for
\* every domain in turn: a dict keeps a key at the place of its first
\* insertion, with the value of its last one
DictValues(domains, agents) ==
    LET firsts == {i \in DOMAIN domains :
                      \A j \in 1..(i - 1) : domains[j].name # domains[i].name}
        last(i) == CHOOSE j \in DOMAIN domains :
                      /\ domains[j].name = domains[i].name
                      /\ \A k \in DOMAIN domains :
                             domains[k].name = domains[i].name => k <= j
        RECURSIVE from(_)
        from(i) == IF i > Len(domains) THEN <<>>
                   ELSE IF i \in firsts THEN <<agents[last(i)]>> \o from(i + 1)
                   ELSE from(i + 1)
    IN  from(1)

CreateDistributedSystem(domains) ==
    LlmAgent(<<"distributed", "_", "coordinator">>,
             <<"You are the root coordinator for distributed routing.">>,
             <<>>,
             DictValues(domains,
                        [i \in 1..Len(domains) |->
                            DistributedDomainAgent(domains[i])]))

\* create_direct_system: the agent of a domain without sub-agents
DirectDomainAgent(domain) ==
    LlmAgent(domain.name,
             <<"Acknowledge you are handling this request as the ">>
                 \o domain.name \o <<" agent.", NL>>
                 \o StartWith(domain.name),
             <<>>,
             <<>>)

\* create_direct_system: the agent of the sub-agent sub_name of a domain
DirectSubAgent(domain, sub_name) ==
    LlmAgent(domain.name \o <<"_">> \o sub_name,
             <<"You are the ">> \o sub_name \o <<" agent.", NL, NL>>
                 \o SubDesc(sub_name) \o <<NL, NL, "Parent domain: ">>
                 \o domain.name \o <<NL, NL>>
                 \o <<"Acknowledge you are handling this request.", NL>>
                 \o StartWith(domain.name \o <<"_">> \o sub_name),
             SubDesc(sub_name) \o <<NL, NL, "Parent domain: ">> \o domain.name,
             <<>>)

\* mutant: a domain without sub-agents contributes no agent
DirectAgentsSubAgentsOnly(domain) ==
    [i \in 1..Len(domain.sub_agents) |->
         DirectSubAgent(domain, domain.sub_agents[i])]

\* create_direct_system: the agents one domain adds to sub_agents_list
DirectAgents(domain) ==
    IF domain.sub_agents = <<>>
    THEN <<DirectDomainAgent(domain)>>
    ELSE [i \in 1..Len(domain.sub_agents) |->
              DirectSubAgent(domain, domain.sub_agents[i])]

CreateDirectSystem(domains) ==
    LlmAgent(<<"direct", "_", "coordinator">>,
             <<"You are the direct routing coordinator.">>,
             <<>>,
             Flatten([i \in 1..Len(domains) |-> DirectAgents(domains[i])]))

\* the keys of improved_centralized.ENHANCED_DOMAINS, in the order of the
\* dict literal
ENHANCED_DOMAINS ==
    <<<<"travel">>, <<"finance">>, <<"hr">>, <<"it", "_", "support">>,
      <<"customer", "_", "service">>, <<"sales">>, <<"marketing">>,
      <<"legal">>, <<"engineering">>, <<"operations">>, <<"product">>,
      <<"design">>, <<"billing">>, <<"project", "_", "management">>,
      <<"learning", "_", "development">>, <<"communications">>,
      <<"facilities">>, <<"data", "_", "analytics">>, <<"security">>,
      <<"procurement">>, <<"risk", "_", "management">>,
      <<"quality", "_", "assurance">>, <<"treasury">>, <<"tax">>,
      <<"internal", "_", "audit">>, <<"investor", "_", "relations">>,
      <<"corporate", "_", "development">>, <<"workplace">>,
      <<"revenue", "_", "operations">>, <<"customer", "_", "success">>,
      <<"partnerships">>, <<"events">>, <<"content">>, <<"research">>,
      <<"ethics", "_", "compliance">>, <<"sustainability">>,
      <<"innovation">>>>

\* centralized_routing.create_centralized_system: the agent of one domain;
\* its instruction prescribes no marker
CentralizedRoutingAgent(domain) ==
    LlmAgent(domain.name \o <<"_", "agent">>,
             <<"When you receive a query, acknowledge it and indicate you are the ">>
                 \o domain.name \o <<" agent handling this request.", NL>>
                 \o <<"Keep your response brief and focused on confirming you've routed correctly.">>,
             domain.name \o <<": ">>,
             <<>>)

\* centralized_routing.create_centralized_system
CentralizedRoutingCreateSystem(domains) ==
    LlmAgent(<<"central", "_", "coordinator">>,
             <<"You are the central routing coordinator.", NL,
               "After routing, respond with: ", RT, SP, "agent", "_", "name", CB>>,
             <<>>,
             [i \in 1..Len(domains) |-> CentralizedRoutingAgent(domains[i])])

\* SUB_AGENTS.get(sub_name, f"Handles {sub_name} tasks")
SubDescTasks(sub_name) ==
    IF sub_name \in DOMAIN SUB_AGENTS
    THEN SUB_AGENTS[sub_name]
    ELSE <<"Handles ">> \o sub_name \o <<" tasks">>

\* distributed_routing.create_distributed_system: the sub-agent sub_name of
\* a domain
DistributedRoutingSubAgent(domain, sub_name) ==
    LlmAgent(domain.name \o <<"_">> \o sub_name,
             <<"Your description: ">> \o SubDescTasks(sub_name) \o <<NL, NL>>
                 \o <<"Acknowledge you are the ">> \o domain.name \o <<"/">>
                 \o sub_name \o <<" sub-agent handling this request.", NL>>
                 \o StartWith(domain.name \o <<"_">> \o sub_name)
                 \o <<NL, "Keep your response brief.">>,
             sub_name \o <<": ">> \o SubDescTasks(sub_name),
             <<>>)

\* the lines "- {sub_name}: {sub_desc}" of a domain's instruction, joined by
\* newlines
RECURSIVE SubAgentDescriptions(_)
SubAgentDescriptions(subs) ==
    IF subs = <<>> THEN <<>>
    ELSE <<"- ">> \o Head(subs) \o <<": ">> \o SubDescTasks(Head(subs))
             \o (IF Tail(subs) = <<>> THEN <<>> ELSE <<NL>>)
             \o SubAgentDescriptions(Tail(subs))

\* distributed_routing.create_distributed_system: the agent of one domain
\* with its sub-agents
DistributedRoutingDomainAgent(domain) ==
    LET sub_agents ==
            [i \in 1..Len(domain.sub_agents) |->
                 DistributedRoutingSubAgent(domain, domain.sub_agents[i])]
        routing_instruction ==
            IF sub_agents # <<>>
            THEN <<"You route queries to your specialized sub-agents:", NL>>
                     \o SubAgentDescriptions(domain.sub_agents)
                     \o <<NL, NL,
                          "Route to the most appropriate sub-agent and delegate immediately.",
                          NL, "After routing, indicate with: ", RT, SP>>
                     \o domain.name \o <<CB>>
            ELSE <<"Handle this request directly.", NL>> \o StartWith(domain.name)
    IN  LlmAgent(domain.name \o <<"_", "domain">>, routing_instruction, <<>>,
                 sub_agents)

\* distributed_routing.create_distributed_system
DistributedRoutingCreateSystem(domains) ==
    LlmAgent(<<"distributed", "_", "coordinator">>,
             <<"You are the root coordinator for distributed routing.">>,
             <<>>,
             DictValues(domains,
                        [i \in 1..Len(domains) |->
                            DistributedRoutingDomainAgent(domains[i])]))

\* improved_centralized.create_improved_centralized_system: the agent of
\* one key of ENHANCED_DOMAINS
ImprovedCentralizedAgent(domain_name) ==
    LlmAgent(domain_name \o <<"_", "agent">>,
             <<"Acknowledge you are handling this request as the ">>
                 \o domain_name \o <<" agent.", NL>>
                 \o StartWith(domain_name \o <<"_", "agent">>),
             <<>>,
             <<>>)

\* improved_centralized.create_improved_centralized_system: it reads
\* ENHANCED_DOMAINS, never the registry of domains.py
ImprovedCentralizedCreateSystem ==
    LlmAgent(<<"central", "_", "coordinator">>,
             <<"You are the central routing coordinator.">>,
             <<>>,
             [i \in 1..Len(ENHANCED_DOMAINS) |->
                 ImprovedCentralizedAgent(ENHANCED_DOMAINS[i])])

\* the builder of a topology kind
CreateSystem(kind, domains) ==
    CASE kind = "centralized" -> CreateCentralizedSystem(domains)
      [] kind = "distributed" -> CreateDistributedSystem(domains)
      [] kind = "direct" -> CreateDirectSystem(domains)
      [] kind = "centralized_routing" -> CentralizedRoutingCreateSystem(domains)
      [] kind = "distributed_routing" -> DistributedRoutingCreateSystem(domains)
      [] kind = "improved_centralized" -> ImprovedCentralizedCreateSystem

\* the calls of one builder that are followed
MaxBuilds(kind) == IF kind \in Topologies THEN 2 ELSE 1

BuildInit ==
    /\ registry \in Registries
    /\ trees = [k \in Builders |-> <<>>]
    /\ QueryIdle
    /\ ScoreIdle
    /\ MainIdle
    /\ AggIdle
    /\ MarkerIdle
    /\ ScanIdle
    /\ RouteIdle

\* a call of the builder of kind: run_<kind> makes one such call per run
Create(kind) ==
    /\ Len(trees[kind]) < MaxBuilds(kind)
    /\ trees' = [trees EXCEPT ![kind] = Append(@, CreateSystem(kind, registry))]
    /\ UNCHANGED <<registry, qvars, svars, mvars, avars, wvars, xvars, rvars>>

CreateCentralized == Create("centralized")
CreateDistributed == Create("distributed")
CreateDirect == Create("direct")
CreateCentralizedRouting == Create("centralized_routing")
CreateDistributedRouting == Create("distributed_routing")
CreateImprovedCentralized == Create("improved_centralized")

BuildNext ==
    \/ CreateCentralized
    \/ CreateDistributed
    \/ CreateDirect
    \/ CreateCentralizedRouting
    \/ CreateDistributedRouting
    \/ CreateImprovedCentralized

BuildSpec == BuildInit /\ [][BuildNext]_vars

----------------------------------------------------------------------------
(* main_async with run_centralized / run_distributed / run_direct *)

MaxQueries == 2

\* the queries an experiment may send in all: the product of its runs, its
\* topologies and its queries
MaxCalls == 6

\* args.runs: no run, the single verbose run, a multi-run experiment
RunChoices == {0, 1, 2}

\* args.mode; "compare" takes the same branches as "quick" everywhere
Modes == {"centralized", "distributed", "direct", "quick"}

TEST_QUERIES ==
    <<[query |-> "I need to book a flight to Tokyo", expected |-> <<"travel">>],
      [query |-> "Find me a hotel in Paris", expected |-> <<"travel">>],
      [query |-> "Rent a car for next week", expected |-> <<"travel">>],
      [query |-> "Plan a vacation to Hawaii", expected |-> <<"travel">>]>>

\* what the completion service may answer to a query: the coordinator
\* delegates and the leaf emits its marker, or the coordinator answers itself
ServiceReplies ==
    {[events |-> <<[author |-> <<"central_", "coordinator">>, parts |-> <<>>],
                   [author |-> <<"travel", "_", "agent">>,
                    parts |-> <<<<RT, SP, "travel", "_", "agent", CB>>>>]>>,
      latency |-> 2],
     [events |-> <<[author |-> <<"central_", "coordinator">>,
                    parts |-> <<<<"hr">>>>]>>,
      latency |-> 1]}

RunsTopology(m, t) == m \in {t, "compare", "quick"}

\* the coroutines of the module that run the experiment
Entries == {"main_async", "run_comparison"}

\* whether the started coroutine calls run_<t>: main_async by args.mode,
\* run_comparison the centralized and the distributed one
CallsTopology(t) ==
    IF entry = "run_comparison" THEN t \in {"centralized", "distributed"}
    ELSE RunsTopology(mode, t)

\* the argument verbose of run_<topology>: args.runs == 1 in main_async, the
\* default True in run_comparison
Verbose == entry = "run_comparison" \/ runs = 1

\* main_async starts at its loop over the runs with any arguments;
\* run_comparison has no arguments but the queries and starts at its call of
\* run_centralized, mode and runs keeping the defaults of the parser
Init ==
    /\ entry \in Entries
    /\ IF entry = "main_async"
       THEN mode \in Modes /\ runs \in RunChoices /\ pc = "loop"
       ELSE mode = "quick" /\ runs = 1 /\ pc = "stage"
    /\ \E n \in 0..MaxQueries : queries_to_run = SubSeq(TEST_QUERIES, 1, n)
    /\ runs * Cardinality({t \in Topologies : CallsTopology(t)})
           * Len(queries_to_run) <= MaxCalls
    /\ run_num = 0
    /\ stage = "centralized"
    /\ batch = <<>>
    /\ results = [t \in Topologies |-> Unbound]
    /\ run_metrics = [t \in Topologies |-> <<>>]
    /\ error = "none"
    /\ debug_calls = <<>>
    /\ registry = TravelDomains
    /\ trees = [k \in Builders |-> <<>>]
    /\ QueryIdle
    /\ ScoreIdle
    /\ AggIdle
    /\ MarkerIdle
    /\ ScanIdle
    /\ RouteIdle

\* mutant: the queries are taken from the end of the list
NextQueryFromEnd(queries, done) == queries[Len(queries) - Len(done)]

\* for i, (query, expected) in enumerate(queries_to_run, 1): the query of the
\* iteration that follows the results already appended
NextQuery(queries, done) == queries[Len(done) + 1]

\* for run_num in range(args.runs)
LoopHead ==
    /\ pc = "loop"
    /\ IF run_num < runs
       THEN pc' = "stage" /\ stage' = "centralized"
       ELSE pc' = "summary" /\ UNCHANGED stage
    /\ UNCHANGED <<entry, mode, runs, queries_to_run, run_num, batch, results,
                   run_metrics, error, debug_calls, qvars, svars, tvars, avars, wvars, xvars, rvars>>

\* control after the block of one topology: the next topology of the run,
\* or the next iteration of the loop
AfterStage ==
    CASE stage = "centralized" ->
             pc' = "stage" /\ stage' = "distributed" /\ UNCHANGED run_num
      [] stage = "distributed" ->
             pc' = "stage" /\ stage' = "direct" /\ UNCHANGED run_num
      [] stage = "direct" ->
             pc' = "loop" /\ run_num' = run_num + 1 /\ UNCHANGED stage

\* control in run_comparison after run_centralized and after run_distributed
AfterComparisonStage ==
    CASE stage = "centralized" ->
             pc' = "stage" /\ stage' = "distributed" /\ UNCHANGED run_num
      [] stage = "distributed" ->
             pc' = "summary" /\ UNCHANGED <<stage, run_num>>

\* if args.mode in [...] is false for the topology
SkipTopology ==
    /\ pc = "stage"
    /\ ~CallsTopology(stage)
    /\ AfterStage
    /\ UNCHANGED <<entry, mode, runs, queries_to_run, batch, results, run_metrics,
                   error, debug_calls, qvars, svars, tvars, avars, wvars, xvars, rvars>>

\* run_<topology> up to its loop over the queries: the builder of the
\* topology is called and the results list is empty
StartTopology ==
    /\ pc = "stage"
    /\ CallsTopology(stage)
    /\ trees' = [trees EXCEPT ![stage] = Append(@, CreateSystem(stage, registry))]
    /\ batch' = <<>>
    /\ debug_calls' = <<>>
    /\ pc' = "query"
    /\ UNCHANGED <<entry, mode, runs, queries_to_run, run_num, stage, results,
                   run_metrics, error, registry, qvars, svars, avars, wvars,
                   xvars, rvars>>

\* one iteration of the loop starts: run_query_async calls run_debug and the
\* coroutine is suspended at its await
QueryCall ==
    /\ pc = "query"
    /\ Len(batch) < Len(queries_to_run)
    /\ debug_calls' = Append(debug_calls,
                             RunDebugCall(NextQuery(queries_to_run, batch).query,
                                          stage))
    /\ pc' = "await"
    /\ UNCHANGED <<entry, mode, runs, queries_to_run, run_num, stage, batch,
                   results, run_metrics, error, qvars, svars, tvars, avars,
                   wvars, xvars, rvars>>

\* run_debug returns: the coroutine resumes and the result is appended
QueryCompletes(reply) ==
    /\ pc = "await"
    /\ pc' = "query"
    /\ LET q == NextQuery(queries_to_run, batch)
           result == RunQueryAsync(q.query, stage, reply.events, reply.latency)
       IN  batch' = Append(batch,
                           [query        |-> result.query,
                            response     |-> result.response,
                            routed_to    |-> result.routed_to,
                            routing_path |-> result.routing_path,
                            hop_count    |-> result.hop_count,
                            latency      |-> result.latency,
                            mode         |-> result.mode,
                            expected     |-> q.expected])
    /\ UNCHANGED <<entry, mode, runs, queries_to_run, run_num, stage, results,
                   run_metrics, error, debug_calls, qvars, svars, tvars, avars, wvars, xvars, rvars>>

\* run_debug raises: nothing catches it, main_async ends with the exception
QueryRaises ==
    /\ pc = "await"
    /\ pc' = "aborted"
    /\ error' = "ServiceError"
    /\ UNCHANGED <<entry, mode, runs, queries_to_run, run_num, stage, batch, results,
                   run_metrics, debug_calls, qvars, svars, tvars, avars, wvars, xvars, rvars>>

\* run_debug never returns: the await never resumes
QueryHangs ==
    /\ pc = "await"
    /\ pc' = "hung"
    /\ UNCHANGED <<entry, mode, runs, queries_to_run, run_num, stage, batch, results,
                   run_metrics, error, debug_calls, qvars, svars, tvars, avars, wvars, xvars, rvars>>

\* after the loop: print_results and the return to the caller; main_async
\* then calls calculate_run_metrics
FinishTopology ==
    /\ pc = "query"
    /\ Len(batch) = Len(queries_to_run)
    /\ IF PrintResults(batch, Verbose) # "ok"
       THEN /\ pc' = "aborted"
            /\ error' = PrintResults(batch, Verbose)
            /\ UNCHANGED <<run_num, stage, results, run_metrics>>
       ELSE /\ results' = [results EXCEPT ![stage] = Bound(batch)]
            /\ IF entry = "main_async"
               THEN /\ run_metrics' = [run_metrics EXCEPT
                                          ![stage] = Append(@, CalculateRunMetrics(batch))]
                    /\ AfterStage
               ELSE /\ UNCHANGED run_metrics
                    /\ AfterComparisonStage
            /\ UNCHANGED error
    /\ UNCHANGED <<entry, mode, runs, queries_to_run, batch, debug_calls, qvars,
                   svars, tvars, avars, wvars, xvars, rvars>>

\* the single-run comparison divides by the length of each result list
ComparisonRaises ==
    \E t \in Topologies :
        Div(CountCorrect(results[t].list), Len(results[t].list)) = ZeroDivisionError

\* after the loop: the multi-run table or the single-run comparison
\* correct / len(results) * 100 of the single-run comparison
SingleRunAccuracy(t) ==
    Times(Div(CountCorrect(results[t].list), Len(results[t].list)), 100)

Summary ==
    /\ pc = "summary"
    /\ entry = "main_async"
    /\ IF runs > 1 /\ mode \in {"compare", "quick"}
       THEN /\ acc_winner' = AccWinner(run_metrics["centralized"],
                                       run_metrics["distributed"],
                                       run_metrics["direct"])
            /\ IF acc_winner' \in {"IndexError", "StatisticsError"}
               THEN pc' = "aborted" /\ error' = acc_winner'
               ELSE pc' = "done" /\ UNCHANGED error
            /\ UNCHANGED <<recommendation, table_runs>>
       ELSE IF runs = 1 /\ mode \in {"compare", "quick"}
       THEN IF ComparisonRaises
            THEN pc' = "aborted" /\ error' = "ZeroDivisionError"
                 /\ UNCHANGED avars
            ELSE /\ pc' = "done"
                 /\ acc_winner' = SingleRunAccWinner(SingleRunAccuracy("centralized"),
                                                     SingleRunAccuracy("distributed"),
                                                     SingleRunAccuracy("direct"))
                 /\ recommendation' = Recommendation(SingleRunAccuracy("centralized"),
                                                     SingleRunAccuracy("distributed"),
                                                     SingleRunAccuracy("direct"))
                 /\ UNCHANGED <<error, table_runs>>
       ELSE pc' = "done" /\ UNCHANGED <<error, avars>>
    /\ UNCHANGED <<entry, mode, runs, queries_to_run, run_num, stage, batch, results,
                   run_metrics, debug_calls, qvars, svars, tvars, wvars, xvars, rvars>>

\* run_comparison: the divisions by the length of the two result lists
TwoWayComparisonRaises ==
    \E t \in {"centralized", "distributed"} :
        Div(CountCorrect(results[t].list), Len(results[t].list)) = ZeroDivisionError

\* run_comparison after its two runs: the comparison of two topologies
ComparisonSummary ==
    /\ pc = "summary"
    /\ entry = "run_comparison"
    /\ IF TwoWayComparisonRaises
       THEN pc' = "aborted" /\ error' = "ZeroDivisionError" /\ UNCHANGED avars
       ELSE /\ pc' = "done"
            /\ acc_winner' = TwoWayAccWinner(SingleRunAccuracy("centralized"),
                                             SingleRunAccuracy("distributed"))
            /\ recommendation' = TwoWayRecommendation(SingleRunAccuracy("centralized"),
                                                      SingleRunAccuracy("distributed"))
            /\ UNCHANGED <<error, table_runs>>
    /\ UNCHANGED <<entry, mode, runs, queries_to_run, run_num, stage, batch, results,
                   run_metrics, debug_calls, qvars, svars, tvars, wvars, xvars, rvars>>

Next ==
    \/ LoopHead
    \/ SkipTopology
    \/ StartTopology
    \/ QueryCall
    \/ ComparisonSummary
    \/ \E reply \in ServiceReplies : QueryCompletes(reply)
    \/ QueryRaises
    \/ QueryHangs
    \/ FinishTopology
    \/ Summary

Spec == Init /\ [][Next]_vars

\* the event loop runs main_async whenever it can take a step
FairSpec == Spec /\ WF_vars(Next)

----------------------------------------------------------------------------
(* MetricsSpec: calculate_run_metrics on the result list of a long run.    *)

MaxBatch == 20

\* a result of a query for travel: routed to the travel agent, or answered
\* by the coordinator in the name of hr
SampleResult(ok) ==
    [query        |-> "I need to book a flight to Tokyo",
     response     |-> IF ok THEN <<RT, SP, "travel", "_", "agent", CB, NL>>
                      ELSE <<"hr", NL>>,
     routed_to    |-> IF ok THEN <<"travel", "_", "agent">> ELSE <<"hr">>,
     routing_path |-> IF ok THEN <<<<"central_", "coordinator">>,
                                   <<"travel", "_", "agent">>>>
                      ELSE <<<<"central_", "coordinator">>>>,
     hop_count    |-> IF ok THEN 2 ELSE 1,
     latency      |-> IF ok THEN 2 ELSE 1,
     mode         |-> "centralized",
     expected     |-> <<"travel">>]

\* a result list of total results, the first correct of them routed well
SampleBatch(correct, total) ==
    [i \in 1..total |-> SampleResult(i <= correct)]

MetricsInit ==
    /\ \E total \in 0..MaxBatch : \E correct \in 0..total :
           batch = SampleBatch(correct, total)
    /\ entry = "main_async"
    /\ mode = "centralized"
    /\ runs = 2
    /\ queries_to_run = <<>>
    /\ pc = "metrics"
    /\ run_num = 1
    /\ stage = "centralized"
    /\ results = [t \in Topologies |-> Unbound]
    /\ run_metrics = [t \in Topologies |-> <<>>]
    /\ error = "none"
    /\ debug_calls = <<>>
    /\ QueryIdle
    /\ ScoreIdle
    /\ TreeIdle
    /\ AggIdle
    /\ MarkerIdle
    /\ ScanIdle
    /\ RouteIdle

\* main_async: the list run_centralized returned is bound and
\* calculate_run_metrics is called on it
CalculateMetrics ==
    /\ pc = "metrics"
    /\ results' = [results EXCEPT ![stage] = Bound(batch)]
    /\ run_metrics' = [run_metrics EXCEPT
                          ![stage] = Append(@, CalculateRunMetrics(batch))]
    /\ pc' = "stage"
    /\ UNCHANGED <<entry, mode, runs, queries_to_run, run_num, stage, batch,
                   error, debug_calls, qvars, svars, tvars, avars, wvars,
                   xvars, rvars>>

MetricsNext == CalculateMetrics

MetricsSpec == MetricsInit /\ [][MetricsNext]_vars

----------------------------------------------------------------------------
(* print_multi_run_table on the run metrics of several runs. The function  *)
(* prints; of what it prints, the model keeps the accuracy winner.         *)

MaxRuns == 3

\* the accuracies, in percent, a run of each topology may have
CenAccs == {80, 85, 90}
DistAccs == {81, 84, 89}
DirAccs == {86}

\* the metrics of a run of 100 queries of which a were routed correctly
MetricsOf(a) ==
    [accuracy |-> Times(Div(a, 100), 100), avg_latency |-> Zero, avg_hops |-> Zero,
     correct |-> a, total |-> 100]

\* the lists of n run metrics with accuracies of accs
RunLists(accs, n) == [1..n -> {MetricsOf(a) : a \in accs}]

\* the arguments of a call of print_multi_run_table: as many centralized
\* runs as distributed ones, or one more, and direct_runs either of the
\* same number or left out (None, which the function tests like [])
TableRuns ==
    UNION {[centralized_runs : RunLists(CenAccs, n),
            distributed_runs : RunLists(DistAccs, n)
                                   \cup (IF n > 0 THEN RunLists(DistAccs, n - 1)
                                         ELSE {}),
            direct_runs : RunLists(DirAccs, n) \cup {<<>>}]
           : n \in 0..MaxRuns}

AggInit ==
    /\ acc_winner = "none"
    /\ recommendation = "none"
    /\ table_runs \in TableRuns
    /\ QueryIdle
    /\ ScoreIdle
    /\ MainIdle
    /\ TreeIdle
    /\ MarkerIdle
    /\ ScanIdle
    /\ RouteIdle

\* print_multi_run_table(centralized_runs, distributed_runs, direct_runs)
PrintMultiRunTable ==
    /\ acc_winner = "none"
    /\ acc_winner' = AccWinner(table_runs.centralized_runs,
                               table_runs.distributed_runs,
                               table_runs.direct_runs)
    /\ UNCHANGED <<recommendation, table_runs>>
    /\ UNCHANGED <<qvars, svars, mvars, tvars, wvars, xvars, rvars>>

AggNext == PrintMultiRunTable

AggSpec == AggInit /\ [][AggNext]_vars

----------------------------------------------------------------------------
(* MarkerSpec: run_query_async on the same marker spaced in three ways.    *)

\* the tokens of an identifier: those of node names, whitespace, and the
\* literal the parser starts from (line 389)
MarkerTokens == {"hr", "_", "agent", UNKNOWN[1], SP}

\* the identifiers of at most MaxIdLen tokens: whitespace inside, none around
Identifiers ==
    UNION {{id \in [1..n -> MarkerTokens] : ~IsSpace(id[1]) /\ ~IsSpace(id[n])}
           : n \in 1..MaxIdLen}

MarkerAuthors ==
    {<<"user">>, <<"central_", "coordinator">>, <<"hr", "_", "agent">>}

\* the text of a marker for id, spaced in the way v
SpacedMarker(v, id) ==
    CASE v = "before" -> <<RT, SP>> \o id \o <<CB>>
      [] v = "after" -> <<RT>> \o id \o <<SP, CB>>
      [] v = "around" -> <<RT, SP, SP>> \o id \o <<SP, SP, CB>>

MarkerInit ==
    /\ marker_id \in Identifiers
    /\ marker_author \in MarkerAuthors
    /\ marker_runs = [v \in Spacings |-> <<>>]
    /\ QueryIdle
    /\ ScoreIdle
    /\ MainIdle
    /\ TreeIdle
    /\ AggIdle
    /\ ScanIdle
    /\ RouteIdle

\* the events run_debug returns to the call for the spacing v: one event by
\* marker_author whose text is the marker spaced in the way v
SpacedEvents(v) ==
    <<[author |-> marker_author, parts |-> <<SpacedMarker(v, marker_id)>>]>>

\* run_query_async is called for the spacing v and runs to its await of
\* runner.run_debug
CallSpaced(v) ==
    /\ marker_runs[v] = <<>>
    /\ marker_runs' = [marker_runs EXCEPT
                          ![v] = <<[pc |-> "await", result |-> NoResult]>>]
    /\ UNCHANGED <<marker_id, marker_author, qvars, svars, mvars, tvars, avars,
                   xvars, rvars>>

\* run_debug returns the events to the call for the spacing v, which runs
\* to its return
ReturnSpaced(v) ==
    /\ marker_runs[v] # <<>>
    /\ marker_runs[v][1].pc = "await"
    /\ marker_runs' = [marker_runs EXCEPT
                          ![v] = <<[pc |-> "returned",
                                    result |-> RunQuery(SpacedEvents(v))]>>]
    /\ UNCHANGED <<marker_id, marker_author, qvars, svars, mvars, tvars, avars,
                   xvars, rvars>>

MarkerNext ==
    \/ \E v \in Spacings : CallSpaced(v)
    \/ \E v \in Spacings : ReturnSpaced(v)

MarkerSpec == MarkerInit /\ [][MarkerNext]_vars

----------------------------------------------------------------------------
(* The standalone parsers: query_centralized of centralized_routing.py and *)
(* query_distributed of distributed_routing.py. Every token of a response  *)
(* but "[ROUTED_TO:" and "[HANDLED_BY:" is one character long, so that a   *)
(* slice that ends one character before the end of the text is exact.      *)

MaxScanTokens == 6

ScanTokens == {RT, HB, CB, SP, "a", "b"}

\* text.find(t, from): the first index >= from at which t stands, with
\* indexes from 1; 0 when there is none
Find(text, t, from) ==
    IF \E i \in from..Len(text) : text[i] = t
    THEN CHOOSE i \in from..Len(text) :
             text[i] = t /\ \A j \in from..(i - 1) : text[j] # t
    ELSE 0

\* text[:-1]: the text without its last character
DropLastChar(text) ==
    IF text = <<>> THEN <<>>
    ELSE LET front == SubSeq(text, 1, Len(text) - 1)
         IN  CASE text[Len(text)] = RT -> front \o <<"[ROUTED_TO">>
               [] text[Len(text)] = HB -> front \o <<"[HANDLED_BY">>
               [] OTHER -> front

\* index of the "]" that find("]", start_idx) returns for the first marker
\* that opens with open, 0 when find returns -1
CloseOfFirst(text, open) == Find(text, CB, Find(text, open, 1) + 1)

\* text[start_idx:end_idx].strip() for the first marker that opens with
\* open: up to the next "]", or up to the last character but one when
\* find returned -1
AfterFirst(text, open) ==
    LET start_idx == Find(text, open, 1) + 1
        end_idx == CloseOfFirst(text, open)
    IN  IF end_idx > 0
        THEN Strip(SubSeq(text, start_idx, end_idx - 1))
        ELSE Strip(DropLastChar(SubSeq(text, start_idx, Len(text))))

\* the routed_to of query_centralized
CentralizedRoutedTo(response) ==
    IF Contains(response, <<RT>>) THEN AfterFirst(response, RT) ELSE UNKNOWN

\* query_distributed after its loop: the [HANDLED_BY: marker and the dict
DistributedResult(response, routed) ==
    LET path == IF Contains(response, <<HB>>)
                THEN Append(routed, AfterFirst(response, HB))
                ELSE routed
    IN  [response     |-> response,
         routing_path |-> path,
         hop_count    |-> Len(path)]

ScanInit ==
    /\ scan_text = <<>>
    /\ scan_pc = "run"
    /\ temp_response = <<>>
    /\ dist_routed = <<>>
    /\ cen_result = <<>>
    /\ dist_result = <<>>
    /\ QueryIdle
    /\ ScoreIdle
    /\ MainIdle
    /\ TreeIdle
    /\ AggIdle
    /\ MarkerIdle
    /\ RouteIdle

\* coordinator.run(query) writes one more token of its response
ScanToken(t) ==
    /\ scan_pc = "run"
    /\ Len(scan_text) < MaxScanTokens
    /\ scan_text' = Append(scan_text, t)
    /\ UNCHANGED <<scan_pc, temp_response, dist_routed, cen_result,
                   dist_result, qvars, svars, mvars, tvars, avars, wvars, rvars>>

\* query_centralized from the return of coordinator.run to its own return
QueryCentralized ==
    /\ scan_pc = "run"
    /\ scan_pc' = "returned"
    /\ cen_result' = <<[response  |-> scan_text,
                        routed_to |-> CentralizedRoutedTo(scan_text)]>>
    /\ UNCHANGED <<scan_text, temp_response, dist_routed, dist_result, qvars,
                   svars, mvars, tvars, avars, wvars, rvars>>

\* query_distributed from the return of coordinator.run to its loop
DistributedStart ==
    /\ scan_pc = "run"
    /\ scan_pc' = "loop"
    /\ temp_response' = scan_text
    /\ dist_routed' = <<>>
    /\ UNCHANGED <<scan_text, cen_result, dist_result, qvars, svars, mvars,
                   tvars, avars, wvars, rvars>>

\* the iterations of the loop of query_distributed that are followed: more
\* than a response of MaxScanTokens tokens has markers
MaxIterations == 7

\* one iteration of while "[ROUTED_TO:" in temp_response. With end_idx = -1
\* the slice temp_response[end_idx + 1:] is the whole of temp_response.
DistributedStep ==
    /\ scan_pc = "loop"
    /\ Contains(temp_response, <<RT>>)
    /\ Len(dist_routed) < MaxIterations
    /\ dist_routed' = Append(dist_routed, AfterFirst(temp_response, RT))
    /\ temp_response' =
           IF CloseOfFirst(temp_response, RT) > 0
           THEN SubSeq(temp_response, CloseOfFirst(temp_response, RT) + 1,
                       Len(temp_response))
           ELSE temp_response
    /\ UNCHANGED <<scan_text, scan_pc, cen_result, dist_result, qvars, svars,
                   mvars, tvars, avars, wvars, rvars>>

\* the loop ends; the [HANDLED_BY: marker, and the return
DistributedReturn ==
    /\ scan_pc = "loop"
    /\ ~Contains(temp_response, <<RT>>)
    /\ scan_pc' = "returned"
    /\ dist_result' = <<DistributedResult(scan_text, dist_routed)>>
    /\ UNCHANGED <<scan_text, temp_response, dist_routed, cen_result, qvars,
                   svars, mvars, tvars, avars, wvars, rvars>>

ScanNext ==
    \/ \E t \in ScanTokens : ScanToken(t)
    \/ QueryCentralized
    \/ DistributedStart
    \/ DistributedStep
    \/ DistributedReturn

ScanSpec == ScanInit /\ [][ScanNext]_vars

----------------------------------------------------------------------------
(* RouteSpec: queries dispatched on the trees built from the shipped       *)
(* registry.  A run builds its tree (Create); the completion service ends  *)
(* a query at one node of that tree, which answers with the marker its     *)
(* instruction prescribes or with plain text; run_query_async reads the    *)
(* events and the harness scores the result against the expected domain.   *)

\* the marker an instruction tells its node to emit, <<>> if it names none
PrescribedMarker(instruction) ==
    IF Find(instruction, RT, 1) = 0 THEN <<>>
    ELSE SubSeq(instruction, Find(instruction, RT, 1),
                Find(instruction, CB, Find(instruction, RT, 1)))

\* the tree the current run of a topology kind dispatches on
CurrentTree(kind) == trees[kind][Len(trees[kind])]

\* the position, among the children of the direct root, before the agents
\* of the i-th domain
DirectOffset(i) ==
    Len(Flatten([n \in 1..(i - 1) |-> DirectAgents(registry[n])]))

\* the nodes from the root to the node built from the i-th domain record:
\* its domain-level node when j = 0, the node of its j-th sub-agent otherwise
TerminalPath(kind, i, j) ==
    LET root == CurrentTree(kind)
    IN  CASE kind = "centralized" -> <<root, root.sub_agents[i]>>
          [] kind = "distributed" ->
                IF j = 0 THEN <<root, root.sub_agents[i]>>
                ELSE <<root, root.sub_agents[i],
                       root.sub_agents[i].sub_agents[j]>>
          [] kind = "direct" ->
                <<root, root.sub_agents[DirectOffset(i)
                                           + (IF j = 0 THEN 1 ELSE j)]>>

\* whether a tree of the kind has a node for (i, j)
HasNode(kind, i, j) ==
    /\ i \in DOMAIN registry
    /\ j \in 0..Len(registry[i].sub_agents)
    /\ kind = "centralized" => j = 0
    /\ kind = "direct" => (j = 0 <=> registry[i].sub_agents = <<>>)

\* the text the terminal node answers with
TerminalText(node, with_marker) ==
    IF with_marker THEN PrescribedMarker(node.instruction) \o <<SP, "ok">>
    ELSE <<"ok">>

\* the events run_debug returns: one per node of the path, the terminal
\* node's carrying the answer
DispatchEvents(path, with_marker) ==
    [n \in 1..Len(path) |->
        [author |-> path[n].name,
         parts  |-> IF n = Len(path)
                    THEN <<TerminalText(path[n], with_marker)>>
                    ELSE <<>>]]

\* the queries of a run that are followed
MaxRouteQueries == 2

\* the calls of run_<kind> that are followed
MaxRouteRuns == 2

\* the pairs of a query and a node of a tree that the runs of a topology may
\* bring together
MaxRouteWork == 15

\* one of experiment.TEST_QUERIES for each of the shipped records
ShippedQueries ==
    {[query |-> "Request time off for next week", expected |-> <<"hr">>],
     [query |-> "Check inventory levels", expected |-> <<"operations">>],
     [query |-> "Revenue forecast",
      expected |-> <<"revenue", "_", "operations">>]}

\* the nodes of a tree of the kind that can end a query
NodeCount(kind) ==
    Cardinality({ij \in (1..3) \X (0..4) : HasNode(kind, ij[1], ij[2])})

\* run_<kind>(queries_to_run, verbose) is about to be called with the
\* shipped registry; verbose is what main_async passes, args.runs == 1
RouteInit ==
    /\ registry = ShippedDomains
    /\ trees = [k \in Builders |-> <<>>]
    /\ entry = "main_async"
    /\ mode = "quick"
    /\ runs \in {1, 2}
    /\ \E n \in 0..MaxRouteQueries : queries_to_run \in [1..n -> ShippedQueries]
    /\ pc = "idle"
    /\ run_num = 0
    /\ stage = "centralized"
    /\ batch = <<>>
    /\ results = [t \in Topologies |-> Unbound]
    /\ run_metrics = [t \in Topologies |-> <<>>]
    /\ error = "none"
    /\ debug_calls = <<>>
    /\ RouteIdle
    /\ QueryIdle
    /\ ScoreIdle
    /\ AggIdle
    /\ MarkerIdle
    /\ ScanIdle

\* run_<kind> is called: it calls its builder and enters its loop over the
\* queries with an empty list of results; the locals of the call before are
\* gone. The calls that are followed are of one topology.
RunStarts(kind) ==
    /\ pc = "idle"
    /\ Len(trees[kind]) < MaxRouteRuns
    /\ \A k \in Topologies \ {kind} : trees[k] = <<>>
    /\ (Len(trees[kind]) + 1) * Len(queries_to_run) * NodeCount(kind)
           <= MaxRouteWork
    /\ trees' = [trees EXCEPT ![kind] = Append(@, CreateSystem(kind, registry))]
    /\ stage' = kind
    /\ pc' = "query"
    /\ batch' = <<>>
    /\ events' = <<>>
    /\ qpc' = "idle"
    /\ qresult' = NoResult
    /\ sc_routed_to' = <<>>
    /\ sc_expected' = <<>>
    /\ verdict' = "none"
    /\ dispatch' = <<>>
    /\ scored' = 0
    /\ UNCHANGED <<entry, mode, runs, queries_to_run, run_num, results,
                   run_metrics, error, debug_calls, registry, avars, wvars,
                   xvars>>

\* mutant: the runner detaches the children of the root it is given
DispatchDetaching(kind, i, j, with_marker) ==
    /\ pc = "query"
    /\ stage = kind
    /\ qpc # "await"
    /\ Len(batch) < Len(queries_to_run)
    /\ HasNode(kind, i, j)
    /\ with_marker =>
           PrescribedMarker(TerminalPath(kind, i, j)[Len(TerminalPath(kind, i, j))].instruction) # <<>>
    /\ events' = DispatchEvents(TerminalPath(kind, i, j), with_marker)
    /\ qpc' = "await"
    /\ qresult' = NoResult
    /\ dispatch' = Append(dispatch,
                          [kind     |-> kind,
                           domain   |-> registry[i].name,
                           node     |-> TerminalPath(kind, i, j)[Len(TerminalPath(kind, i, j))].name,
                           marker   |-> with_marker,
                           expected |-> NextQuery(queries_to_run, batch).expected])
    /\ trees' = [trees EXCEPT ![kind][Len(trees[kind])].sub_agents = <<>>]
    /\ UNCHANGED <<registry, svars, mvars, avars, wvars, xvars, scored>>

\* run_<kind>: one iteration of the loop over queries_to_run starts, whether
\* or not a query came before it: run_query_async gives the runner the root
\* of the tree the run has built and is suspended at its await of run_debug;
\* the completion service ends the query at the node (i, j)
Dispatch(kind, i, j, with_marker) ==
    /\ pc = "query"
    /\ stage = kind
    /\ qpc # "await"
    /\ Len(batch) < Len(queries_to_run)
    /\ HasNode(kind, i, j)
    /\ with_marker =>
           PrescribedMarker(TerminalPath(kind, i, j)[Len(TerminalPath(kind, i, j))].instruction) # <<>>
    /\ events' = DispatchEvents(TerminalPath(kind, i, j), with_marker)
    /\ qpc' = "await"
    /\ qresult' = NoResult
    /\ dispatch' = Append(dispatch,
                          [kind     |-> kind,
                           domain   |-> registry[i].name,
                           node     |-> TerminalPath(kind, i, j)[Len(TerminalPath(kind, i, j))].name,
                           marker   |-> with_marker,
                           expected |-> NextQuery(queries_to_run, batch).expected])
    /\ UNCHANGED <<svars, mvars, tvars, avars, wvars, xvars, scored>>

\* run_debug returns the events: run_query_async runs to its return and
\* run_<kind> appends the result with result['expected'] = expected
DispatchReturns ==
    /\ pc = "query"
    /\ qpc = "await"
    /\ qpc' = "returned"
    /\ qresult' = RunQuery(events)
    /\ LET q == NextQuery(queries_to_run, batch)
           result == RunQueryAsync(q.query, stage, events, 1)
       IN  batch' = Append(batch,
                           [query        |-> result.query,
                            response     |-> result.response,
                            routed_to    |-> result.routed_to,
                            routing_path |-> result.routing_path,
                            hop_count    |-> result.hop_count,
                            latency      |-> result.latency,
                            mode         |-> result.mode,
                            expected     |-> q.expected])
    /\ UNCHANGED <<entry, mode, runs, queries_to_run, pc, run_num, stage,
                   results, run_metrics, error, debug_calls, events, svars,
                   tvars, avars, wvars, xvars, rvars>>

\* print_results, verbose, after the loop over the queries: one iteration
\* of its loop over the results calls is_correct_routing on the next one
ScoreResult ==
    /\ pc = "query"
    /\ qpc # "await"
    /\ Len(batch) = Len(queries_to_run)
    /\ Verbose
    /\ scored < Len(batch)
    /\ sc_routed_to' = batch[scored + 1].routed_to
    /\ sc_expected' = batch[scored + 1].expected
    /\ verdict' = IF IsCorrectRouting(batch[scored + 1].routed_to,
                                      batch[scored + 1].expected)
                  THEN "True" ELSE "False"
    /\ scored' = scored + 1
    /\ UNCHANGED <<qvars, mvars, tvars, avars, wvars, xvars, dispatch>>

\* print_results comes to its end, at once when not verbose, and run_<kind>
\* returns the results; or print_results raises
RunEnds ==
    /\ pc = "query"
    /\ qpc # "await"
    /\ Len(batch) = Len(queries_to_run)
    /\ Verbose => scored = Len(batch)
    /\ IF PrintResults(batch, Verbose) # "ok"
       THEN pc' = "aborted" /\ error' = PrintResults(batch, Verbose)
       ELSE pc' = "idle" /\ UNCHANGED error
    /\ UNCHANGED <<entry, mode, runs, queries_to_run, run_num, stage, batch,
                   results, run_metrics, debug_calls, qvars, svars, tvars,
                   avars, wvars, xvars, rvars>>

DispatchQuery ==
    \E kind \in Topologies, i \in 1..3, j \in 0..4, with_marker \in BOOLEAN :
        Dispatch(kind, i, j, with_marker)

RouteNext ==
    \/ \E kind \in Topologies : RunStarts(kind)
    \/ DispatchQuery
    \/ DispatchReturns
    \/ ScoreResult
    \/ RunEnds

RouteSpec == RouteInit /\ [][RouteNext]_vars

----------------------------------------------------------------------------
(* Markers of a text, as the marker protocol defines them: a marker opens  *)
(* at "[ROUTED_TO:" or "[HANDLED_BY:", closes at the next "]", and its     *)
(* identifier is the text in between without surrounding whitespace.       *)

RECURSIVE MarkerIdsFrom(_, _)
MarkerIdsFrom(s, i) ==
    IF i > Len(s) THEN <<>>
    ELSE IF s[i] \in {RT, HB} /\ FirstClose(s, i) > i + 1
         THEN <<Strip(SubSeq(s, i + 1, FirstClose(s, i) - 1))>>
              \o MarkerIdsFrom(s, FirstClose(s, i) + 1)
         ELSE MarkerIdsFrom(s, i + 1)

MarkerIds(s) == MarkerIdsFrom(s, 1)

Returned == qpc = "returned"

\* C1: when the response text holds more than one marker, routed_to is the
\* identifier of the last marker in text order, for every text and trace.
C1_LastMarkerWins ==
    (Returned /\ Len(MarkerIds(ResponseText(events))) > 1) =>
        qresult.routed_to = MarkerIds(ResponseText(events))[Len(MarkerIds(ResponseText(events)))]

\* C2: routed_to is never the empty string.
C2_RoutedToNeverEmpty ==
    Returned => qresult.routed_to # <<>>

\* the identifiers of a trace that mention neither "coordinator" nor
\* "category", whatever the case of the letters
MentionsRouter(a) ==
    \E k \in DOMAIN a : a[k] \in {"coordinator", "Coordinator", "category", "Category"}

KeptIndexes(path) == {k \in DOMAIN path : ~MentionsRouter(path[k])}

\* C4: with no marker in the text, routed_to is the last trace identifier
\* that mentions neither "coordinator" nor "category"; the raw last entry
\* when every identifier mentions one; "unknown" when the trace is empty.
C4_TraceFallback ==
    (Returned /\ MarkerIds(ResponseText(events)) = <<>>) =>
        LET path == qresult.routing_path
            kept == KeptIndexes(path)
        IN  /\ path = <<>> => qresult.routed_to = UNKNOWN
            /\ kept # {} =>
                   \E k \in kept : /\ \A j \in kept : j <= k
                                   /\ qresult.routed_to = path[k]
            /\ (path # <<>> /\ kept = {}) => qresult.routed_to = path[Len(path)]

\* C4 witness: no marker, and the last trace entry is dropped while an
\* earlier one is kept
C4_Witness ==
    /\ Returned
    /\ MarkerIds(ResponseText(events)) = <<>>
    /\ Len(qresult.routing_path) = 2
    /\ KeptIndexes(qresult.routing_path) = {1}
    /\ qresult.routed_to = qresult.routing_path[1]

\* C5: an empty trace gives routed_to = "unknown" and hop_count = 0,
\* whatever events the service returned.
C5_EmptyTraceUnknown ==
    (Returned /\ qresult.routing_path = <<>>) =>
        (qresult.routed_to = UNKNOWN /\ qresult.hop_count = 0)

\* C3: is_correct_routing holds exactly when routed_to starts with the
\* expected domain followed by "_", or equals the expected domain.
C3_CorrectIffPrefixOrExact ==
    verdict # "none" =>
        ((verdict = "True") <=>
            (\/ StartsWith(sc_routed_to, sc_expected \o <<"_">>)
             \/ sc_routed_to = sc_expected))

\* C6: an error of the completion call for one query does not abort the
\* run: the failure is recorded and the other queries are still executed.
C6_FailureIsolated ==
    error = "ServiceError" => pc # "aborted"

\* C7: a completion call that never returns is ended by a timeout, so the
\* run does not stay blocked on it.
C7_HangTimesOut ==
    (pc = "hung") ~> (pc # "hung")

\* C8: on an empty query batch no path of the run raises a division error.
C8_EmptyBatchNoDivisionError ==
    queries_to_run = <<>> => error # "ZeroDivisionError"

ZeroMetrics ==
    [accuracy |-> Zero, avg_latency |-> Zero, avg_hops |-> Zero,
     correct |-> 0, total |-> 0]

\* C9: calculate_run_metrics on an empty batch returns accuracy = 0,
\* avg_latency = 0, avg_hops = 0, correct = 0 and total = 0.
C9_EmptyBatchZeroMetrics ==
    queries_to_run = <<>> =>
        \A t \in Topologies : \A k \in DOMAIN run_metrics[t] :
            run_metrics[t][k] = ZeroMetrics

\* C9 witness: metrics were computed for an empty batch
C9_Witness ==
    /\ queries_to_run = <<>>
    /\ \E t \in Topologies : run_metrics[t] # <<>>

\* the metrics of the latest batch of topology t
LastMetrics(t) == run_metrics[t][Len(run_metrics[t])]

\* the float x is num / den up to the rounding of two operations on floats:
\* the two are less than one part in 2^51 of num / den apart
WithinRounding(x, num, den) ==
    LET scaled == Exact(BigTimes(x.m, den), x.e)
        target == FromInt(num)
        err == IF Less(scaled, target) THEN ExactMinus(target, scaled)
               ELSE ExactMinus(scaled, target)
    IN  ~Less(target, [m |-> err.m, e |-> err.e + 51])

\* C10: the metrics of a batch have total = number of results, correct =
\* number of results that is_correct_routing accepts, 0 <= correct <= total,
\* and accuracy = 100 * correct / total when total > 0, as a float: up to
\* the rounding of the division and of the multiplication.
C10_MetricsCountBatch ==
    \A t \in Topologies :
        run_metrics[t] # <<>> =>
            LET m == LastMetrics(t)
                rs == results[t].list
                accepted == {k \in DOMAIN rs :
                                IsCorrectRouting(rs[k].routed_to, rs[k].expected)}
            IN  /\ m.total = Len(rs)
                /\ m.correct = Cardinality(accepted)
                /\ 0 <= m.correct /\ m.correct <= m.total
                /\ m.total > 0 => WithinRounding(m.accuracy, 100 * m.correct, m.total)

\* C10 witness: a batch of three results, one of them accepted, whose
\* accuracy 33.33333333333333 is the float below the one nearest to 100 / 3
C10_Witness ==
    \E t \in Topologies :
        /\ run_metrics[t] # <<>>
        /\ LastMetrics(t).total = 3
        /\ LastMetrics(t).correct = 1
        /\ Less(LastMetrics(t).accuracy, Div(100, 3))

\* the positions of a trace at which an identifier appears for the first time
FirstVisits(path) == {k \in DOMAIN path : \A j \in 1..(k - 1) : path[j] # path[k]}

\* C11: hop_count is the number of distinct identifiers of routing_path,
\* and 0 <= hop_count <= length of routing_path.
C11_HopCountDistinct ==
    Returned =>
        /\ qresult.hop_count = Cardinality(FirstVisits(qresult.routing_path))
        /\ 0 <= qresult.hop_count
        /\ qresult.hop_count <= Len(qresult.routing_path)

\* C11 witness: a node appears twice in the trace and is counted once
C11_Witness ==
    /\ Returned
    /\ Len(qresult.routing_path) = 2
    /\ qresult.hop_count = 1

\* C12: no two query executions of one topology and run pass the same
\* (user_id, session_id) pair to the completion service.
C12_DistinctSessionPerQuery ==
    \A i, j \in DOMAIN debug_calls :
        i # j =>
            <<debug_calls[i].user_id, debug_calls[i].session_id>>
                # <<debug_calls[j].user_id, debug_calls[j].session_id>>

\* the i-th result of a list answers the i-th input query
AnswersInOrder(rs) ==
    \A i \in DOMAIN rs :
        /\ i \in DOMAIN queries_to_run
        /\ rs[i].query = queries_to_run[i].query
        /\ rs[i].expected = queries_to_run[i].expected

\* C13: the batch a topology returns has one result per input query, in
\* input order, each with the query text and expected domain of its query.
C13_ResultsInInputOrder ==
    /\ AnswersInOrder(batch)
    /\ \A t \in Topologies :
           results[t].bound =>
               /\ Len(results[t].list) = Len(queries_to_run)
               /\ AnswersInOrder(results[t].list)

\* C13 witness: a topology has returned a batch for two different queries
C13_Witness ==
    \E t \in Topologies :
        /\ results[t].bound
        /\ Len(results[t].list) = 2
        /\ results[t].list[1].query # results[t].list[2].query

\* the identifiers of the nodes of a tree: the root, then every child
\* followed by its own children
RECURSIVE NodeNames(_)
NodeNames(node) ==
    <<node.name>> \o Flatten([i \in 1..Len(node.sub_agents) |->
                                  NodeNames(node.sub_agents[i])])

NoRepeats(xs) == \A i, j \in DOMAIN xs : i # j => xs[i] # xs[j]

\* C14: in every tree a builder returns for a registry with unique domain
\* names, the identifiers of all nodes are pairwise distinct.
C14_NodeNamesDistinct ==
    \A k \in Topologies :
        \A i \in DOMAIN trees[k] : NoRepeats(NodeNames(trees[k][i]))

\* C15: the distributed tree has one child per domain record, in registry
\* order; the child of a domain has one leaf per entry of its sub_agents
\* list, named {domain}_{leaf}, and a domain without sub_agents gets a
\* childless node instructed to handle the request itself.
C15_DistributedShape ==
    \A n \in DOMAIN trees["distributed"] :
        LET root == trees["distributed"][n]
        IN  /\ Len(root.sub_agents) = Len(registry)
            /\ \A i \in DOMAIN registry :
                   LET domain == registry[i]
                       node == root.sub_agents[i]
                   IN  /\ node.name = domain.name \o <<"_", "domain">>
                       /\ Len(node.sub_agents) = Len(domain.sub_agents)
                       /\ \A j \in DOMAIN domain.sub_agents :
                              /\ node.sub_agents[j].name
                                     = domain.name \o <<"_">> \o domain.sub_agents[j]
                              /\ node.sub_agents[j].sub_agents = <<>>
                       /\ domain.sub_agents = <<>> =>
                              /\ node.sub_agents = <<>>
                              /\ Contains(node.instruction,
                                          <<"Handle this request directly.">>)
                       /\ domain.sub_agents # <<>> =>
                              ~Contains(node.instruction,
                                        <<"Handle this request directly.">>)

\* C15 witness: the two-level tree of finance with banking and expenses,
\* and hr without sub-agents
C15_Witness ==
    /\ registry = <<[name |-> <<"finance">>,
                     sub_agents |-> <<<<"banking">>, <<"expenses">>>>],
                    [name |-> <<"hr">>, sub_agents |-> <<>>]>>
    /\ trees["distributed"] # <<>>
    /\ Len(trees["distributed"][1].sub_agents[1].sub_agents) = 2
    /\ trees["distributed"][1].sub_agents[2].sub_agents = <<>>

\* what the direct topology requires of the root's children: per domain, in
\* registry order, {domain}_{leaf} for every leaf handler, or {domain} alone
RECURSIVE DirectLeafNames(_)
DirectLeafNames(domains) ==
    IF domains = <<>> THEN <<>>
    ELSE (IF Head(domains).sub_agents = <<>>
          THEN <<Head(domains).name>>
          ELSE [j \in 1..Len(Head(domains).sub_agents) |->
                   Head(domains).name \o <<"_">> \o Head(domains).sub_agents[j]])
         \o DirectLeafNames(Tail(domains))

\* the sum over the domains of max(1, number of leaf handlers)
RECURSIVE DirectLeafCount(_)
DirectLeafCount(domains) ==
    IF domains = <<>> THEN 0
    ELSE (IF Len(Head(domains).sub_agents) > 1
          THEN Len(Head(domains).sub_agents) ELSE 1)
         + DirectLeafCount(Tail(domains))

\* C16: the children of the direct root are one leaf {domain}_{leaf} per
\* leaf handler of every domain and one leaf {domain} per domain without
\* leaf handlers; their number is the sum of max(1, leaf handlers) and none
\* of them has children.
C16_DirectShape ==
    \A n \in DOMAIN trees["direct"] :
        LET root == trees["direct"][n]
        IN  /\ [i \in 1..Len(root.sub_agents) |-> root.sub_agents[i].name]
                   = DirectLeafNames(registry)
            /\ Len(root.sub_agents) = DirectLeafCount(registry)
            /\ \A i \in DOMAIN root.sub_agents :
                   root.sub_agents[i].sub_agents = <<>>

\* C16 witness: a direct tree of three leaves for a domain of two leaf
\* handlers and a domain without any
C16_Witness ==
    /\ Len(registry) = 2
    /\ \E i \in DOMAIN registry : registry[i].sub_agents = <<>>
    /\ \E i \in DOMAIN registry : Len(registry[i].sub_agents) = 2
    /\ trees["direct"] # <<>>
    /\ Len(trees["direct"][1].sub_agents) = 3

\* the leaf-handler references of the registry that have no entry in
\* SUB_AGENTS, as pairs of a domain index and an index in its sub_agents
Undescribed ==
    UNION {{<<i, j>> : j \in {n \in DOMAIN registry[i].sub_agents :
                                 registry[i].sub_agents[n] \notin DOMAIN SUB_AGENTS}}
           : i \in DOMAIN registry}

\* C19: a leaf-handler name without an entry in SUB_AGENTS does not stop
\* create_distributed_system or create_direct_system, and its leaf gets a
\* placeholder description made from the name.
C19_PlaceholderDescription ==
    /\ \A k \in {"distributed", "direct"} :
           Len(trees[k]) < 2 => ENABLED Create(k)
    /\ \A k \in {"distributed", "direct"} :
           \A n \in DOMAIN trees[k] :
               \A p \in Undescribed :
                   LET domain == registry[p[1]]
                       sub_name == domain.sub_agents[p[2]]
                       leaves == IF k = "direct"
                                 THEN trees[k][n].sub_agents
                                 ELSE trees[k][n].sub_agents[p[1]].sub_agents
                   IN  \E i \in DOMAIN leaves :
                           /\ leaves[i].name = domain.name \o <<"_">> \o sub_name
                           /\ Contains(leaves[i].description,
                                       <<"Handles ">> \o sub_name)

\* C19 witness: both builders have built a tree for a registry that lists
\* the undescribed leaf handler "ops"
C19_Witness ==
    /\ Undescribed # {}
    /\ \E i \in DOMAIN registry : registry[i].sub_agents = <<<<"ops">>>>
    /\ trees["distributed"] # <<>>
    /\ trees["direct"] # <<>>

\* the mean accuracies of the topologies that print_multi_run_table compares
MeanAccuracies ==
    {Mean(Accuracies(table_runs.centralized_runs)),
     Mean(Accuracies(table_runs.distributed_runs))}
        \cup (IF table_runs.direct_runs # <<>>
              THEN {Mean(Accuracies(table_runs.direct_runs))} ELSE {})

\* the largest and the smallest mean accuracy are less than 5 points apart
SpreadUnderFive ==
    \A a, b \in MeanAccuracies : Less(a, ExactPlus(b, FromInt(5)))

\* C18: when the mean accuracies of the compared topologies are less than 5
\* percentage points apart, the accuracy winner is "Tie", for two and for
\* three topologies.
C18_TieUnderFivePoints ==
    (acc_winner \in {"Centralized", "Distributed", "Direct", "Tie"}
        /\ SpreadUnderFive)
    => acc_winner = "Tie"

\* the call of run_query_async for the spacing v has returned
SpacedReturned(v) == marker_runs[v] # <<>> /\ marker_runs[v][1].pc = "returned"

\* C20: "[ROUTED_TO: id]", "[ROUTED_TO:id ]" and "[ROUTED_TO:  id  ]"
\* resolve to the same routed_to, the identifier without the whitespace
\* around it.
C20_SpacingIgnored ==
    /\ \A v \in Spacings :
           SpacedReturned(v) => marker_runs[v][1].result.routed_to = marker_id
    /\ \A v, w \in Spacings :
           SpacedReturned(v) /\ SpacedReturned(w) =>
               marker_runs[v][1].result.routed_to
                   = marker_runs[w][1].result.routed_to

\* C21: whenever at least one marker matches, routed_to is the identifier of
\* the last marker, the literal "unknown" included, whatever the trace; the
\* trace is inspected only when no marker matches.
C21_FallbackOnlyWithoutMarker ==
    (Returned /\ MarkerIds(ResponseText(events)) # <<>>) =>
        LET ids == MarkerIds(ResponseText(events))
        IN  qresult.routed_to = ids[Len(ids)]

\* C22: the marker scan of query_distributed terminates for every response
\* text, a text with "[ROUTED_TO:" and no "]" after it included: every
\* iteration of its loop leaves less of temp_response than it found. The
\* loop reads nothing but temp_response, so an iteration that leaves it as
\* it was is repeated for ever.
C22_ScanTerminates ==
    [][(scan_pc = "loop" /\ dist_routed' # dist_routed)
          => Len(temp_response') < Len(temp_response)]_vars

\* a response made of plain text and complete [ROUTED_TO: ...] markers:
\* every "[ROUTED_TO:" is closed by a "]" before the next one opens, with an
\* identifier in between, and no other bracket stands in the text
OnlyRoutedToMarkers(text) ==
    /\ \A i \in DOMAIN text : text[i] # HB
    /\ \A i \in DOMAIN text :
           text[i] = RT =>
               /\ Find(text, CB, i + 1) > 0
               /\ \A j \in (i + 1)..Find(text, CB, i + 1) : text[j] # RT
               /\ Strip(SubSeq(text, i + 1, Find(text, CB, i + 1) - 1)) # <<>>
    /\ \A j \in DOMAIN text :
           text[j] = CB =>
               \E i \in 1..(j - 1) : text[i] = RT /\ Find(text, CB, i + 1) = j

\* C28: on a response made only of [ROUTED_TO: ...] markers and plain
\* text, query_centralized resolves the routed_to that the marker parsing of
\* run_query_async resolves.
C28_ParsersAgree ==
    (cen_result # <<>> /\ OnlyRoutedToMarkers(scan_text)) =>
        cen_result[1].routed_to = MarkerRoutedTo(scan_text)

\* C29: the hop_count of query_distributed is the number of distinct
\* identifiers of the routing_path it returns.
C29_DistributedHopCountDistinct ==
    dist_result # <<>> =>
        dist_result[1].hop_count
            = Cardinality({dist_result[1].routing_path[k] :
                              k \in DOMAIN dist_result[1].routing_path})

\* print_results has scored a result of the run: the last one it scored is
\* that of the query dispatch[scored]
Scored == scored > 0 /\ verdict # "none"

\* C23: with the shipped registry, a node identifier generated from a domain
\* other than the expected domain D is never scored correct for D.
C23_OtherDomainNeverCorrect ==
    (/\ Scored
     /\ dispatch[scored].domain # dispatch[scored].expected
     /\ sc_routed_to = dispatch[scored].node) => verdict = "False"

\* C24: in each topology, when the terminal node of a query belongs to the
\* expected domain and answers with exactly the marker its instruction
\* prescribes, or with no marker at all, the result is scored correct.
C24_ExpectedDomainScoredCorrect ==
    (Scored /\ dispatch[scored].domain = dispatch[scored].expected)
        => verdict = "True"

\* a sub-agent of the expected domain answered without a marker in the
\* distributed tree, and the trace fallback made the result correct
C24_Witness ==
    /\ Scored
    /\ dispatch[scored].kind = "distributed"
    /\ dispatch[scored].domain = dispatch[scored].expected
    /\ ~dispatch[scored].marker
    /\ Len(batch[scored].routing_path) = 3
    /\ sc_routed_to = dispatch[scored].node
    /\ verdict = "True"

\* C30: executing queries never changes the registry or a built tree, and
\* every run builds a tree of its own: a step keeps the registry and every
\* tree built so far, a builder call adds the tree it builds from the
\* registry, and a step of a run that is under way adds none.
C30_TreesNeverMutated ==
    [][/\ registry' = registry
       /\ \A k \in Topologies :
              /\ Len(trees'[k]) >= Len(trees[k])
              /\ SubSeq(trees'[k], 1, Len(trees[k])) = trees[k]
              /\ Len(trees'[k]) > Len(trees[k]) =>
                     trees'[k] = Append(trees[k], CreateSystem(k, registry))
       /\ pc = "query" => trees' = trees]_vars

\* the second run of the centralized topology built its own tree and a
\* query dispatched on it has been scored
C30_Witness ==
    /\ Len(trees["centralized"]) = 2
    /\ Scored
    /\ dispatch[scored].kind = "centralized"
    /\ trees["centralized"][1] = CreateSystem("centralized", registry)

\* the nodes of a built tree: the root, its children and their children
NodesOf(root) ==
    {root}
        \cup {root.sub_agents[i] : i \in DOMAIN root.sub_agents}
        \cup UNION {{root.sub_agents[i].sub_agents[j] :
                        j \in DOMAIN root.sub_agents[i].sub_agents}
                    : i \in DOMAIN root.sub_agents}

\* C25: in every built tree, the identifier of the marker a node's
\* instruction tells it to emit is the node's own identifier.
C25_MarkerNamesOwnNode ==
    \A k \in Topologies : \A n \in DOMAIN trees[k] :
        \A node \in NodesOf(trees[k][n]) :
            MarkerIds(node.instruction) # <<>> =>
                MarkerIds(node.instruction) = <<node.name>>

\* the events with the text of those authored by 'user' or 'test_user'
\* taken out
WithoutUserText(evs) ==
    [k \in DOMAIN evs |->
        IF IsAgentAuthor(evs[k].author) THEN evs[k]
        ELSE [evs[k] EXCEPT !.parts = <<>>]]

\* C26: routed_to and hop_count depend only on the events authored by
\* dispatch nodes: the text of events authored by 'user' or 'test_user'
\* does not change them.
C26_UserTextIgnored ==
    Returned =>
        /\ qresult.routed_to = RunQuery(WithoutUserText(events)).routed_to
        /\ qresult.hop_count = RunQuery(WithoutUserText(events)).hop_count

\* C27: in the single-run comparison of the three topologies, when the
\* accuracy winner is not "Tie", the topology of the RECOMMENDATION is the
\* accuracy winner.
C27_RecommendationIsAccuracyWinner ==
    (/\ pc = "done"
     /\ entry = "main_async"
     /\ runs = 1
     /\ recommendation # "none"
     /\ acc_winner # "Tie") =>
        recommendation =
            (CASE acc_winner = "Centralized" -> "Centralized routing (Idea 1)"
               [] acc_winner = "Distributed" -> "Distributed routing (Idea 2)"
               [] acc_winner = "Direct" -> "Direct routing (Idea 3)")

=============================================================================
